---- MODULE Spec2Model ----
(***************************************************************************)
(* Model of the Manga Viewer extension's content script (src/content.js):  *)
(* the image detection strategies, the auto-fallback orchestrator, the     *)
(* refresh controller, the message listener and the initialization.        *)
(***************************************************************************)
EXTENDS Integers, Sequences, FiniteSets, TLC

\* ------------------------------------------------------------------------
\* Bounds of the model
\* ------------------------------------------------------------------------
\* a page of Pages holds at most this many <img> elements of ImgPool
MaxImgs == 2
\* the scripts of a page add <img> elements up to this many
MaxDomImgs == 3
\* time advances in steps of at most this many milliseconds
TickMs == 125

\* ------------------------------------------------------------------------
\* CONFIG (content.js 7-22)
\* ------------------------------------------------------------------------
minImageHeight == 400
minImageWidth == 200
minMangaImageCount == 2
refreshDebounceMs == 250
minPixelCount == 200000
transparentAlpha == 10
\* CONFIG.niconico.defaultThreshold is 0.65; ratios are kept in percent
defaultThresholdPct == 65

\* DETECTION_MODES (content.js 25-36): the keys
ModeNames ==
  {"auto", "smart", "deep-scan", "basic", "frame-reader", "niconico-seiga",
   "reading-content", "chapter-content", "manga-reader", "entry-content"}

\* DETECTION_MODES[name].selector: the class the selector "<.class> img" names
SelectorClass(name) ==
  IF name \in {"reading-content", "chapter-content", "manga-reader", "entry-content"}
  THEN name ELSE "none"

\* DETECTION_MODES[name].dataSrcSupport
dataSrcSupport(name) ==
  name \in {"reading-content", "chapter-content", "entry-content"}

\* ------------------------------------------------------------------------
\* URLs.  A URL is a record of the features the code inspects:
\*   n      which resource it names (two URLs are the same string iff all
\*          fields agree)
\*   scheme "http" (http: or https:) or "data"; "" for the empty string
\*   kw     the exclude keyword the string contains ("" for none)
\*   ext    the file extension that ends its path ("" for none)
\*   w, h   the natural size of the image the URL serves
\* ------------------------------------------------------------------------
Url(n, scheme, kw, ext, w, h) ==
  [n |-> n, scheme |-> scheme, kw |-> kw, ext |-> ext, w |-> w, h |-> h]

NoUrl == Url(0, "", "", "", 0, 0)
UrlA == Url(1, "http", "", "jpg", 800, 1200)
UrlB == Url(2, "http", "", "png", 800, 1200)
UrlC == Url(3, "http", "", "jpg", 800, 1200)
UrlIcon == Url(4, "http", "icon", "png", 16, 16)
UrlSummary == Url(5, "http", "summary", "jpg", 800, 1200)
UrlNoExt == Url(6, "http", "", "", 800, 1200)
UrlShort == Url(7, "http", "", "webp", 800, 399)
UrlNarrow == Url(8, "http", "", "gif", 499, 1200)

\* isImageUrl (content.js 444): /\.(jpe?g|png|webp|gif)(\?.*)?$/i
ImageExts == {"jpg", "jpeg", "png", "webp", "gif"}

isImageUrl(url) == url.ext \in ImageExts

\* excludePatterns of detectFromDocument (content.js 362)
DocumentExcludePatterns ==
  {"icon", "logo", "avatar", "banner", "header", "footer", "thumb", "thumbnail",
   "profile", "menu", "button", "bg", "background", "nav", "sidebar", "ad",
   "advertisement", "favicon", "sprite"}

\* the list of detectFromResources and detectFromTextScan (content.js 377, 392)
ResourceExcludePatterns == DocumentExcludePatterns \cup {"summary"}

\* matchesExcludePatterns (content.js 445)
matchesExcludePatterns(src, patterns) == src.kw \in patterns

\* ------------------------------------------------------------------------
\* Image objects.  An <img> element of a document, or an Image the code
\* created with new Image().
\*   doc   "main": element of the page, "frame": element of the iframe's
\*         document, "new": created by a strategy (a fresh object each time)
\*   i     which element of its document (0 for a created object)
\*   src, complete, nw (naturalWidth), nh (naturalHeight): its properties
\*   dataSrc       dataset.src
\*   dataOriginal  dataset.original, or else dataset.lazySrc
\*   srcset        img.currentSrc, or else the last candidate of img.srcset
\*   top           getBoundingClientRect().top
\*   preload       dataset.preload === "yes"
\*   cls   the template class the element is inside of ("none" for none)
\*   flag  dataset.isResourceDetected / isTextScanned / isNiconicoCanvas
\*   idx   dataset.resourceIndex / textScanIndex / canvasIndex (-1: none)
\* ------------------------------------------------------------------------
Img(doc, i, src, dataSrc, dataOriginal, srcset, complete, top, cls, preload) ==
  [doc |-> doc, i |-> i, src |-> src, dataSrc |-> dataSrc,
   dataOriginal |-> dataOriginal, srcset |-> srcset, complete |-> complete,
   nw |-> IF complete THEN src.w ELSE 0,
   nh |-> IF complete THEN src.h ELSE 0,
   top |-> top, cls |-> cls, preload |-> preload, flag |-> "none", idx |-> -1]

\* const img = new Image(); img.src = url; img.dataset.<flag> = ...
NewImage(url, flag, idx) ==
  [doc |-> "new", i |-> 0, src |-> url, dataSrc |-> NoUrl,
   dataOriginal |-> NoUrl, srcset |-> NoUrl, complete |-> FALSE,
   nw |-> 0, nh |-> 0, top |-> 0, cls |-> "none", preload |-> FALSE,
   flag |-> flag, idx |-> idx]

\* a !== b on image objects: created objects are never the same object
SameObject(a, b) == a.doc # "new" /\ a.doc = b.doc /\ a.i = b.i

\* isImageLoaded (content.js 439)
isImageLoaded(img) == img.complete /\ img.nh > 0 /\ img.nw > 0

\* isValidImageSize (content.js 440-443)
isValidImageSize(img) ==
  IF img.flag = "canvas" THEN TRUE
  ELSE img.nh >= minImageHeight /\ img.nw >= minImageWidth

\* ------------------------------------------------------------------------
\* Sequence helpers
\* ------------------------------------------------------------------------
Range(s) == {s[k] : k \in 1..Len(s)}

\* the URLs of a list of image objects, in list order
Srcs(images) == [k \in 1..Len(images) |-> images[k].src]

NoDuplicates(s) == \A j, k \in 1..Len(s) : j # k => s[j] # s[k]

\* ------------------------------------------------------------------------
\* The page.  A record:
\*   imgs       the <img> elements of the document outside the viewer, in
\*              document order (document.querySelectorAll('img'))
\*   viewer     the <img> elements Viewer.showPage put into the image area;
\*              the viewer's container is the last child of the body
\*   resources  the names of performance.getEntriesByType("resource")
\*   scripts    the URLs the markup holds outside <img> tags, in order
\*   iframe     "none": no iframe, "denied": access to the first iframe's
\*              document throws, "null": its document is null, "open"
\*   frameImgs  the <img> elements of the first iframe's document
\*   canvases   the <canvas> elements, in document order
\* A canvas is [w, h, transparent, content, readThrows, dataThrows]:
\*   transparent  how many of its w*h pixels have alpha < transparentAlpha
\*   content      names the bitmap: toDataURL of equal bitmaps is equal
\*   readThrows   getContext('2d') is null or getImageData throws
\*   dataThrows   toDataURL throws
\* ------------------------------------------------------------------------
Canvas(w, h, transparent, content, readThrows, dataThrows) ==
  [w |-> w, h |-> h, transparent |-> transparent, content |-> content,
   readThrows |-> readThrows, dataThrows |-> dataThrows]

\* canvas.toDataURL('image/png')
toDataURL(canvas) == Url(canvas.content, "data", "", "", canvas.w, canvas.h)

\* img.src = url on an element whose src was empty: the load starts
SetSrc(img, url) ==
  [img EXCEPT !.src = url, !.complete = FALSE, !.nw = 0, !.nh = 0]

\* normalizeImageSrc (content.js 430-438)
normalizeImageSrc(img) ==
  LET candidate == IF img.dataSrc # NoUrl THEN img.dataSrc ELSE img.dataOriginal
      img1 == IF img.src = NoUrl /\ candidate # NoUrl
              THEN SetSrc(img, candidate) ELSE img
  IN  IF img1.src = NoUrl /\ img1.srcset # NoUrl
      THEN SetSrc(img1, img1.srcset) ELSE img1

\* sortImagesByPosition's comparator is negative (content.js 456-462); the
\* three index tests apply to created images, which carry one kind of index
ComesBefore(a, b) ==
  IF a.idx >= 0 /\ b.idx >= 0 /\ a.flag = b.flag THEN a.idx < b.idx
  ELSE a.top < b.top

\* Array.prototype.sort is stable: an insertion sort by ComesBefore
RECURSIVE InsertSorted(_, _)
InsertSorted(x, s) ==
  IF s = <<>> THEN <<x>>
  ELSE IF ComesBefore(x, Head(s)) THEN <<x>> \o s
  ELSE <<Head(s)>> \o InsertSorted(x, Tail(s))

\* sortImagesByPosition (content.js 455-463)
RECURSIVE sortImagesByPosition(_)
sortImagesByPosition(images) ==
  IF images = <<>> THEN <<>>
  ELSE InsertSorted(images[Len(images)],
                    sortImagesByPosition(SubSeq(images, 1, Len(images) - 1)))

\* the filter of filterAndSortImages: the first image of each src is kept
RECURSIVE DedupeBySrc(_, _)
DedupeBySrc(images, seenSrcs) ==
  IF images = <<>> THEN <<>>
  ELSE IF Head(images).src \in seenSrcs THEN DedupeBySrc(Tail(images), seenSrcs)
  ELSE <<Head(images)>> \o DedupeBySrc(Tail(images), seenSrcs \cup {Head(images).src})

\* filterAndSortImages (content.js 446-454)
filterAndSortImages(images) ==
  IF Len(images) < minMangaImageCount THEN <<>>
  ELSE sortImagesByPosition(DedupeBySrc(images, {}))

\* the filter callback of detectFromDocument, after normalizeImageSrc
\* (content.js 365-370)
DocumentAccepts(img) ==
  IF img.flag # "none" THEN TRUE
  ELSE IF img.preload THEN TRUE
  ELSE IF img.src = NoUrl THEN FALSE
  ELSE IF ~isImageLoaded(img) THEN isImageUrl(img.src)
  ELSE IF ~isValidImageSize(img) THEN FALSE
  ELSE ~matchesExcludePatterns(img.src, DocumentExcludePatterns)

\* detectFromDocument (content.js 360-373): the images and the page it leaves
detectFromDocument(pg) ==
  LET imgs1 == [k \in 1..Len(pg.imgs) |-> normalizeImageSrc(pg.imgs[k])]
      viewer1 == [k \in 1..Len(pg.viewer) |-> normalizeImageSrc(pg.viewer[k])]
      potential == SelectSeq(imgs1 \o viewer1, DocumentAccepts)
  IN  [images |-> filterAndSortImages(potential),
       page |-> [pg EXCEPT !.imgs = imgs1, !.viewer = viewer1]]

\* the filter callback of detectBySelector (content.js 405-408)
SelectorAccepts(img) ==
  IF img.flag # "none" THEN TRUE
  ELSE IF img.src = NoUrl THEN FALSE
  ELSE IF ~isImageLoaded(img) THEN isImageUrl(img.src)
  ELSE isValidImageSize(img)

\* a detectBySelector that filters the elements before it fills in their src
detectBySelectorFilterFirst(configName, pg) ==
  IF SelectorClass(configName) = "none" THEN [images |-> <<>>, page |-> pg]
  ELSE
    LET Promote(img) ==
          IF img.cls = SelectorClass(configName) /\ dataSrcSupport(configName)
             /\ img.src = NoUrl /\ img.dataSrc # NoUrl
          THEN SetSrc(img, img.dataSrc) ELSE img
        InArea(img) == img.cls = SelectorClass(configName)
    IN  [images |-> SelectSeq(SelectSeq(pg.imgs, InArea), SelectorAccepts),
         page |-> [pg EXCEPT !.imgs = [k \in 1..Len(pg.imgs) |-> Promote(pg.imgs[k])]]]

\* detectBySelector (content.js 397-410)
detectBySelector(configName, pg) ==
  IF SelectorClass(configName) = "none" THEN [images |-> <<>>, page |-> pg]
  ELSE
    LET Promote(img) ==
          IF img.cls = SelectorClass(configName) /\ dataSrcSupport(configName)
             /\ img.src = NoUrl /\ img.dataSrc # NoUrl
          THEN SetSrc(img, img.dataSrc) ELSE img
        imgs1 == [k \in 1..Len(pg.imgs) |-> Promote(pg.imgs[k])]
        InArea(img) == img.cls = SelectorClass(configName)
    IN  [images |-> SelectSeq(SelectSeq(imgs1, InArea), SelectorAccepts),
         page |-> [pg EXCEPT !.imgs = imgs1]]

\* imageUrls.map((url, index) => new Image ...)
RECURSIVE NewImages(_, _, _)
NewImages(urls, flag, index) ==
  IF urls = <<>> THEN <<>>
  ELSE <<NewImage(Head(urls), flag, index)>> \o NewImages(Tail(urls), flag, index + 1)

\* detectFromResources (content.js 374-381)
detectFromResources(pg) ==
  LET Keep(url) == isImageUrl(url)
                   /\ ~matchesExcludePatterns(url, ResourceExcludePatterns)
  IN  [images |-> NewImages(SelectSeq(pg.resources, Keep), "resource", 0),
       page |-> pg]

\* document.documentElement.outerHTML, as the URLs it holds in order: each
\* <img>'s src, data-src, data-original and srcset, then the scripts, then
\* the viewer's images
RECURSIVE AttributeUrls(_)
AttributeUrls(imgs) ==
  IF imgs = <<>> THEN <<>>
  ELSE LET NonEmpty(url) == url # NoUrl
       IN  SelectSeq(<<Head(imgs).src, Head(imgs).dataSrc,
                       Head(imgs).dataOriginal, Head(imgs).srcset>>, NonEmpty)
           \o AttributeUrls(Tail(imgs))

outerHTML(pg) == AttributeUrls(pg.imgs) \o pg.scripts \o AttributeUrls(pg.viewer)

\* a list that keeps every match
SetOrderKeepingAll(urls, found) == urls

\* Array.from(foundUrls) of the Set the matches were added to
RECURSIVE SetOrder(_, _)
SetOrder(urls, found) ==
  IF urls = <<>> THEN <<>>
  ELSE IF Head(urls) \in found THEN SetOrder(Tail(urls), found)
  ELSE <<Head(urls)>> \o SetOrder(Tail(urls), found \cup {Head(urls)})

\* detectFromTextScan (content.js 382-396); the pattern is
\* /https?:\/\/[^\s"'<>]+\.(?:jpe?g|png|webp|gif)(?:\?[^\s"'<>]*)?/gi
detectFromTextScan(pg) ==
  LET Matches(url) == url.scheme = "http" /\ url.ext \in ImageExts
      foundUrls == SetOrder(SelectSeq(outerHTML(pg), Matches), {})
      Keep(url) == ~matchesExcludePatterns(url, ResourceExcludePatterns)
  IN  [images |-> NewImages(SelectSeq(foundUrls, Keep), "text", 0), page |-> pg]

\* the root of the iframe's origin: new URL('', iframeUrl.origin).href
UrlFrameRoot == Url(12, "http", "", "", 0, 0)

\* new URL(img.src, iframeUrl.origin).href (content.js 421-422).  img.src is
\* the property, which the browser has resolved in the iframe's document: a
\* src that does not start with 'http' is the empty string or an absolute
\* URL of another scheme, and an absolute URL is left as it is
resolveInFrame(src) == IF src = NoUrl THEN UrlFrameRoot ELSE src

\* the callback of potential.forEach (content.js 418-426)
fixFrameSrc(img) ==
  IF img.src.scheme = "http" THEN img
  ELSE [img EXCEPT !.src = resolveInFrame(img.src)]

\* the elements of the iframe's document after the forEach on the ones
\* Keep lets through
FixedFrameImgs(frameImgs, Keep(_)) ==
  [k \in 1..Len(frameImgs) |->
     IF Keep(frameImgs[k]) THEN fixFrameSrc(frameImgs[k]) ELSE frameImgs[k]]

\* a frame reader without the test of the width
detectFromIframeAnyWidth(pg) ==
  IF pg.iframe # "open" THEN [images |-> <<>>, page |-> pg]
  ELSE
    LET Keep(img) == img.complete /\ img.nh > 0 /\ img.nw > 0
    IN  [images |-> sortImagesByPosition(
                      SelectSeq(FixedFrameImgs(pg.frameImgs, Keep), Keep)),
         page |-> [pg EXCEPT !.frameImgs = FixedFrameImgs(pg.frameImgs, Keep)]]

\* detectFromIframe (content.js 411-429)
detectFromIframe(pg) ==
  IF pg.iframe # "open" THEN [images |-> <<>>, page |-> pg]
  ELSE
    LET Keep(img) == img.complete /\ img.nh > 0 /\ img.nw > 0 /\ img.nw >= 500
    IN  [images |-> sortImagesByPosition(
                      SelectSeq(FixedFrameImgs(pg.frameImgs, Keep), Keep)),
         page |-> [pg EXCEPT !.frameImgs = FixedFrameImgs(pg.frameImgs, Keep)]]

\* the thresholds t (in percent) for which the double 1 - t is greater than
\* the double nearest to the real number 1 - t: 1 - 0.7 is
\* 0.30000000000000004 and 1 - 0.85 is 0.15000000000000002; for 0.65 the two
\* are the same double (content.js 209)
SubtractionRoundsUp == {70, 85}

\* the thresholds for which the double 1 - t is less than the double nearest
\* to the real number 1 - t (content.js 209)
SubtractionRoundsDown == {55, 80, 90}

\* transparencyRatio < threshold (content.js 225-227) in double arithmetic:
\* the quotient transparentPixels / (width * height) is the double nearest
\* to the real ratio, so the comparison is that of the real numbers unless
\* the real ratio is 1 - t itself, and then the rounding of 1 - t decides
RatioBelowThreshold(transparentPixels, area, thresholdPct) ==
  \/ transparentPixels * 100 < (100 - thresholdPct) * area
  \/ /\ transparentPixels * 100 = (100 - thresholdPct) * area
     /\ thresholdPct \in SubtractionRoundsUp

\* the canvases.forEach callback of extractFromCanvas (content.js 210-240):
\* the images canvas number i adds; threshold is 1 - state.niconico.threshold
CanvasImages(canvas, i, thresholdPct) ==
  IF canvas.w * canvas.h < minPixelCount THEN <<>>
  ELSE IF canvas.readThrows THEN <<>>
  ELSE IF RatioBelowThreshold(canvas.transparent, canvas.w * canvas.h, thresholdPct)
       THEN IF canvas.dataThrows THEN <<>>
            ELSE <<NewImage(toDataURL(canvas), "canvas", i)>>
       ELSE <<>>

\* a loop whose first throwing canvas ends the extraction
RECURSIVE ExtractFromAborting(_, _, _)
ExtractFromAborting(canvases, i, thresholdPct) ==
  IF canvases = <<>> THEN <<>>
  ELSE IF /\ Head(canvases).w * Head(canvases).h >= minPixelCount
          /\ (Head(canvases).readThrows \/ Head(canvases).dataThrows)
  THEN <<>>
  ELSE CanvasImages(Head(canvases), i, thresholdPct)
       \o ExtractFromAborting(Tail(canvases), i + 1, thresholdPct)

\* a loop that numbers the canvases it emits and not the ones it passes over
RECURSIVE ExtractFromCountingEmitted(_, _, _)
ExtractFromCountingEmitted(canvases, i, thresholdPct) ==
  IF canvases = <<>> THEN <<>>
  ELSE CanvasImages(Head(canvases), i, thresholdPct)
       \o ExtractFromCountingEmitted(
            Tail(canvases),
            i + Len(CanvasImages(Head(canvases), i, thresholdPct)),
            thresholdPct)

\* canvases.forEach((canvas, i) => ...) from canvas number i on (content.js
\* 210-240)
RECURSIVE ExtractFrom(_, _, _)
ExtractFrom(canvases, i, thresholdPct) ==
  IF canvases = <<>> THEN <<>>
  ELSE CanvasImages(Head(canvases), i, thresholdPct)
       \o ExtractFrom(Tail(canvases), i + 1, thresholdPct)

\* NiconicoExtractor.extractFromCanvas (content.js 201-243)
extractFromCanvas(pg, thresholdPct) ==
  [images |-> ExtractFrom(pg.canvases, 0, thresholdPct), page |-> pg]

\* ------------------------------------------------------------------------
\* ImageDetector: the orchestrator.  A detection returns
\*   images        the list returned
\*   page          the page as the strategies left it
\*   ran           the names of the strategies that were run, in order
\*   detectedMode  the value of state.detectedMode afterwards
\* ------------------------------------------------------------------------
\* a strategies array that lists the resource scan first, as the keys of
\* DETECTION_MODES do
strategiesResourceFirst ==
  <<"smart", "basic", "reading-content", "chapter-content", "manga-reader",
    "entry-content", "deep-scan", "frame-reader", "niconico-seiga">>

\* the strategies array of detectWithAutoFallback (content.js 336-346)
strategies ==
  <<"basic", "reading-content", "chapter-content", "manga-reader",
    "entry-content", "smart", "deep-scan", "frame-reader", "niconico-seiga">>

\* strategy.condition: only frame-reader has one (content.js 344)
StrategyCondition(name, pg) == name = "frame-reader" => pg.iframe # "none"

\* strategy.method() (content.js 337-345); the detectors of detectByMode
\* (content.js 323-327) call the same methods
StrategyMethod(name, pg, thresholdPct) ==
  CASE name = "basic" -> detectFromDocument(pg)
    [] name = "smart" -> detectFromResources(pg)
    [] name = "deep-scan" -> detectFromTextScan(pg)
    [] name = "frame-reader" -> detectFromIframe(pg)
    [] name = "niconico-seiga" -> extractFromCanvas(pg, thresholdPct)
    [] OTHER -> detectBySelector(name, pg)

\* an acceptance test that a single image passes
QualifiesWithOne(images) == Len(images) >= 1

\* images.length >= CONFIG.minMangaImageCount (content.js 350)
Qualifies(images) == Len(images) >= minMangaImageCount

\* a loop that a frame reader without a readable document ends
RECURSIVE AutoFallbackFromAborting(_, _, _, _)
AutoFallbackFromAborting(k, pg, thresholdPct, ran) ==
  IF k > Len(strategies)
  THEN [images |-> <<>>, page |-> pg, ran |-> ran, detectedMode |-> "null"]
  ELSE IF ~StrategyCondition(strategies[k], pg)
  THEN AutoFallbackFromAborting(k + 1, pg, thresholdPct, ran)
  ELSE IF strategies[k] = "frame-reader" /\ pg.iframe # "open"
  THEN [images |-> <<>>, page |-> pg, ran |-> Append(ran, strategies[k]),
        detectedMode |-> "null"]
  ELSE LET Decide(r) ==
             IF Qualifies(r.images)
             THEN [images |-> r.images, page |-> r.page,
                   ran |-> Append(ran, strategies[k]),
                   detectedMode |-> strategies[k]]
             ELSE AutoFallbackFromAborting(k + 1, r.page, thresholdPct,
                                           Append(ran, strategies[k]))
       IN  Decide(StrategyMethod(strategies[k], pg, thresholdPct))

\* the loop of detectWithAutoFallback from strategy number k on
RECURSIVE AutoFallbackFrom(_, _, _, _)
AutoFallbackFrom(k, pg, thresholdPct, ran) ==
  IF k > Len(strategies)
  THEN [images |-> <<>>, page |-> pg, ran |-> ran, detectedMode |-> "null"]
  ELSE IF ~StrategyCondition(strategies[k], pg)
  THEN AutoFallbackFrom(k + 1, pg, thresholdPct, ran)
  ELSE LET Decide(r) ==
             IF Qualifies(r.images)
             THEN [images |-> r.images, page |-> r.page,
                   ran |-> Append(ran, strategies[k]),
                   detectedMode |-> strategies[k]]
             ELSE AutoFallbackFrom(k + 1, r.page, thresholdPct,
                                   Append(ran, strategies[k]))
       IN  Decide(StrategyMethod(strategies[k], pg, thresholdPct))

\* detectWithAutoFallback (content.js 334-359)
detectWithAutoFallback(pg, thresholdPct) == AutoFallbackFrom(1, pg, thresholdPct, <<>>)

\* a detectByMode that searches on when the pinned strategy finds too few
detectByModeFallingBack(mode, pg, thresholdPct, detectedMode) ==
  LET Return(name, r) ==
        IF Len(r.images) >= minMangaImageCount
        THEN [images |-> r.images, page |-> r.page, ran |-> <<name>>,
              detectedMode |-> detectedMode]
        ELSE detectWithAutoFallback(r.page, thresholdPct)
      Run(name) == Return(name, StrategyMethod(name, pg, thresholdPct))
  IN  IF mode = "auto" THEN detectWithAutoFallback(pg, thresholdPct)
      ELSE Run(IF mode \in ModeNames THEN mode ELSE "basic")

\* detectByMode (content.js 320-333): an unknown mode falls back to basic
detectByMode(mode, pg, thresholdPct, detectedMode) ==
  IF mode = "auto" THEN detectWithAutoFallback(pg, thresholdPct)
  ELSE LET Return(name, r) ==
             [images |-> r.images, page |-> r.page, ran |-> <<name>>,
              detectedMode |-> detectedMode]
           Run(name) == Return(name, StrategyMethod(name, pg, thresholdPct))
       IN  Run(IF mode \in ModeNames THEN mode ELSE "basic")

\* const detector = detectors[mode]; if (detector) return detector()
\* (content.js 329-330).  detectors is an object literal and the lookup
\* follows its prototype chain: for '__proto__' it yields Object.prototype,
\* which is truthy and is not a function, and the call throws a TypeError
detectorThrows(mode) == mode = "__proto__"

\* the detect of content.js 312-319 ends with that TypeError
detectThrows(detectionMode) ==
  detectionMode # "auto" /\ detectorThrows(detectionMode)

\* detect (content.js 312-319)
detect(detectionMode, pg, thresholdPct, detectedMode) ==
  IF detectionMode # "auto"
  THEN detectByMode(detectionMode, pg, thresholdPct, detectedMode)
  ELSE detectWithAutoFallback(pg, thresholdPct)

\* ------------------------------------------------------------------------
\* Pages the model runs on
\* ------------------------------------------------------------------------
UrlAd == Url(9, "http", "ad", "jpg", 800, 1200)
UrlThumb == Url(10, "http", "thumb", "jpg", 800, 1200)
UrlLogo == Url(11, "http", "logo", "png", 16, 16)

\* the <img> elements a page may hold, in document order; element i is
\* ImgPool[i]
ImgPool ==
  <<Img("main", 1, UrlA, NoUrl, NoUrl, NoUrl, TRUE, 300, "manga-reader", FALSE),
    Img("main", 2, UrlB, NoUrl, NoUrl, NoUrl, TRUE, 100, "manga-reader", FALSE),
    Img("main", 3, UrlA, NoUrl, NoUrl, NoUrl, TRUE, 500, "manga-reader", FALSE),
    Img("main", 4, NoUrl, UrlC, NoUrl, NoUrl, TRUE, 700, "reading-content", FALSE),
    Img("main", 5, UrlIcon, NoUrl, NoUrl, NoUrl, TRUE, 0, "none", FALSE),
    Img("main", 6, UrlAd, NoUrl, NoUrl, NoUrl, TRUE, 200, "reading-content", FALSE),
    Img("main", 7, UrlThumb, NoUrl, NoUrl, NoUrl, FALSE, 400, "entry-content", FALSE),
    Img("main", 8, NoUrl, NoUrl, UrlShort, NoUrl, TRUE, 600, "chapter-content", FALSE),
    Img("main", 9, UrlLogo, NoUrl, NoUrl, NoUrl, TRUE, 800, "none", TRUE)>>

\* the elements of ImgPool whose numbers are in the set which, in order
ImgsOf(which) ==
  LET Chosen(img) == img.i \in which IN SelectSeq(ImgPool, Chosen)

ImgLists == {ImgsOf(which) : which \in {w \in SUBSET (1..Len(ImgPool)) : Cardinality(w) <= MaxImgs}}

\* a data: URL of an image
UrlInline == Url(13, "data", "", "", 800, 1200)

\* the <img> elements of the iframe's document, in document order
FrameImgs ==
  <<Img("frame", 1, UrlA, NoUrl, NoUrl, NoUrl, TRUE, 50, "none", FALSE),
    Img("frame", 2, UrlNarrow, NoUrl, NoUrl, NoUrl, TRUE, 20, "none", FALSE),
    Img("frame", 3, UrlB, NoUrl, NoUrl, NoUrl, TRUE, 10, "none", FALSE),
    Img("frame", 4, UrlC, NoUrl, NoUrl, NoUrl, FALSE, 0, "none", FALSE),
    Img("frame", 5, UrlInline, NoUrl, NoUrl, NoUrl, TRUE, 30, "none", FALSE)>>

CanvasesA ==
  <<Canvas(100, 100, 0, 21, FALSE, FALSE), Canvas(500, 400, 0, 22, FALSE, FALSE),
    Canvas(500, 400, 69999, 23, FALSE, FALSE),
    Canvas(500, 400, 60000, 27, FALSE, FALSE)>>

CanvasesB ==
  <<Canvas(500, 400, 0, 22, FALSE, FALSE), Canvas(500, 400, 70000, 24, FALSE, FALSE),
    Canvas(500, 400, 0, 25, TRUE, FALSE), Canvas(500, 400, 0, 26, FALSE, TRUE),
    Canvas(500, 400, 0, 22, FALSE, FALSE)>>

ResourcesA == <<UrlA, UrlB>>

ResourcesB == <<UrlC, UrlIcon, UrlC, UrlNoExt>>

ScriptsA == <<UrlB, UrlSummary, UrlC, UrlB>>

\* what a page holds besides its <img> elements: resources, scripts, iframe
\* and canvases
Surroundings ==
  {<<<<>>, <<>>, "none", <<>>>>,
   <<ResourcesA, <<>>, "none", <<>>>>,
   <<ResourcesB, <<>>, "none", <<>>>>,
   <<<<>>, ScriptsA, "none", <<>>>>,
   <<<<>>, <<>>, "open", <<>>>>,
   <<<<>>, <<>>, "denied", CanvasesA>>,
   <<<<>>, <<>>, "null", CanvasesB>>,
   <<<<>>, <<>>, "none", CanvasesB>>,
   <<<<>>, <<>>, "none", CanvasesA>>,
   <<<<>>, ScriptsA, "open", CanvasesA>>,
   <<ResourcesA, ScriptsA, "open", CanvasesA>>,
   <<ResourcesB, <<>>, "denied", <<>>>>}

Page(imgs, resources, scripts, iframe, canvases) ==
  [imgs |-> imgs, viewer |-> <<>>, resources |-> resources, scripts |-> scripts,
   iframe |-> iframe,
   frameImgs |-> IF iframe \in {"none", "null"} THEN <<>> ELSE FrameImgs,
   canvases |-> canvases, watched |-> {}, armed |-> {}]

Pages ==
  {Page(imgs, around[1], around[2], around[3], around[4]) :
     imgs \in ImgLists, around \in Surroundings}

\* ------------------------------------------------------------------------
\* State of the content script and of what it talks to
\* ------------------------------------------------------------------------
VARIABLES
  page,          \* the document
  store,         \* chrome.storage.sync
  load,          \* Settings.load: "pending", "read" (the storage answered),
                 \* "resolved" (initialize ran on), "rejected"
  loadResult,    \* what chrome.storage.sync.get answered
  settings,      \* state.settings
  images,        \* state.images
  currentPage,   \* state.currentPage
  detectedMode,  \* state.detectedMode ("null" for null)
  toggleButton,  \* elements.toggleButton is in the page
  container,     \* elements.container: "none", or its style.display
  observing,     \* observers.mutation is connected
  refreshTimer,  \* ms left on the timer of scheduleRefresh's debounce, -1: none
  buttons,       \* how many toggle buttons the page holds
  unloaded,      \* the beforeunload listener of initialize has run
  poll,          \* timers.polling is set, and state.lastImageCount
  view,          \* the scroll geometry of the window and of the iframe
  loading,       \* the load-everything sequence of ImageManager.loadAll
  popup,         \* PopupManager.launchViewer in the popup
  popups,        \* the settings each open popup holds, and its operation
  scroll,        \* the clock, and the throttle of the scroll listener
  log            \* what the last step did

vars ==
  <<page, store, load, loadResult, settings, images, currentPage, detectedMode,
    toggleButton, container, observing, refreshTimer, buttons, unloaded, poll,
    view, loading, popup, popups, scroll, log>>

\* what the handlers of the messages and of the page's events leave alone
envVars == <<unloaded, poll, view, loading, scroll>>

\* window.location.hostname
hostname == "site"

Hosts == {"site", "other"}

\* state.images holds image objects; the model keeps of each what is read
Ref(img) ==
  [doc |-> img.doc, i |-> img.i, src |-> img.src, flag |-> img.flag, idx |-> img.idx]

Refs(imgs) == [k \in 1..Len(imgs) |-> Ref(imgs[k])]

\* the values of mangaViewerNiconicoThreshold the modelled store may hold, in
\* percent: the default and a position of the slider (content.js 274)
Thresholds == {defaultThresholdPct, 70}

\* the initial state object (content.js 39-55)
InitialSettings ==
  [siteMode |-> "hide", detectionMode |-> "auto", singlePageMode |-> FALSE,
   niconicoThreshold |-> defaultThresholdPct]

\* the fields of log: the step, the detection mode its detection pass read
\* ("none": no pass, "test": the methods of testDetection), the strategies it
\* ran in order, the length of the list the detection returned (-1: none
\* ran), whether the list held the URLs of state.images in the same order,
\* whether state.images was assigned, the counts testDetection answered, what
\* was answered or thrown, and whether chrome.storage.sync.set was called
Log(op, r, response, wrote) ==
  [op |-> op, mode |-> r.mode, ran |-> r.ran, count |-> r.count,
   sameUrls |-> r.sameUrls, changed |-> r.changed, results |-> r.results,
   response |-> response, wrote |-> wrote]

\* a step that ran no detection
NoPass ==
  [mode |-> "none", ran |-> <<>>, count |-> -1, sameUrls |-> FALSE,
   changed |-> FALSE, results |-> <<>>]

\* the condition of ImageManager.refresh (content.js 511)
ImagesDiffer(newImages, old) ==
  Len(newImages) # Len(old)
  \/ \E k \in 1..Len(newImages) : ~SameObject(old[k], newImages[k])

\* the elements of the page among the images of a result.  The objects a
\* pass or the viewer creates are new objects every time and are not followed
Elements(found) ==
  {[doc |-> found[k].doc, i |-> found[k].i] :
     k \in {n \in 1..Len(found) : found[n].doc \in {"main", "frame"}}}

\* the forEach of ImageManager.refresh and attachWatchers (content.js
\* 518-527): watched is the WeakSet, armed the elements whose once-only
\* load listener has not run
attachWatchers(pg, found, mode) ==
  IF mode \in {"auto", "basic"}
  THEN [pg EXCEPT !.watched = pg.watched \cup Elements(found),
                  !.armed = pg.armed \cup (Elements(found) \ pg.watched)]
  ELSE pg

\* ImageManager.refresh (content.js 509-522): the detection pass and the
\* value of state.images it leaves
refresh(pg, st, imgs, detected) ==
  LET Assign(d, newImages) ==
        [images |-> IF ImagesDiffer(newImages, imgs) THEN newImages ELSE imgs,
         changed |-> ImagesDiffer(newImages, imgs),
         sameUrls |-> Srcs(newImages) = Srcs(imgs),
         page |-> attachWatchers(d.page, d.images, st.detectionMode),
         detectedMode |-> d.detectedMode,
         mode |-> st.detectionMode, ran |-> d.ran, count |-> Len(d.images),
         results |-> <<>>]
      Pass(d) == Assign(d, Refs(d.images))
  IN  Pass(detect(st.detectionMode, pg, st.niconicoThreshold, detected))

\* the <img> elements Viewer.showPage(pageNum) creates (content.js 655-663)
ShownImgs(imgs, pageNum, singlePage) ==
  LET last == IF singlePage THEN pageNum ELSE pageNum + 1
      upto == IF last < Len(imgs) - 1 THEN last ELSE Len(imgs) - 1
  IN  [k \in 1..(upto - pageNum + 1) |->
         Img("viewer", k, imgs[pageNum + k].src, NoUrl, NoUrl, NoUrl, FALSE, 0,
             "none", FALSE)]

\* the elements showPage removes from the image area are no longer those a
\* later scan finds
Detached(imgs) ==
  [k \in 1..Len(imgs) |->
     IF imgs[k].doc = "viewer" THEN [imgs[k] EXCEPT !.doc = "removed"] ELSE imgs[k]]

\* Math.max(0, Math.min(pageNum, state.images.length - 1)) (content.js 650)
ClampPage(pageNum, n) ==
  IF pageNum > n - 1 THEN (IF n - 1 < 0 THEN 0 ELSE n - 1)
  ELSE IF pageNum < 0 THEN 0 ELSE pageNum

\* Viewer.showPage (content.js 647-668) on the state [page, images,
\* currentPage, container]
showPage(pageNum, pg, imgs, cur, cont, singlePage) ==
  IF Len(imgs) = 0
  THEN [page |-> pg, images |-> imgs, currentPage |-> cur, container |-> cont]
  ELSE [page |-> [pg EXCEPT !.viewer =
                    ShownImgs(imgs, ClampPage(pageNum, Len(imgs)), singlePage)],
        images |-> Detached(imgs),
        currentPage |-> ClampPage(pageNum, Len(imgs)),
        container |-> "flex"]

\* timers.polling is null and state.lastImageCount is 0 (content.js 43, 77)
NoPoll == [on |-> FALSE, lastImageCount |-> 0]

\* a window: its innerHeight, the scrollHeight of its document and its
\* pageYOffset
Window(innerHeight, scrollHeight, top) ==
  [innerHeight |-> innerHeight, scrollHeight |-> scrollHeight, top |-> top]

\* the page's window and the window of its first iframe, not scrolled
InitialView == [main |-> Window(600, 1500, 0), frame |-> Window(600, 1500, 0)]

\* no load-everything sequence has been started: the step timers are not
\* set and the button's dataset.loading is not '1' (content.js 529)
NotLoading ==
  [phase |-> "idle", button |-> "0", window |-> "main", currentScroll |-> 0,
   documentHeight |-> 0, originalScrollTop |-> 0, startTop |-> 0,
   lastHeight |-> 0, attempts |-> 0]

\* the popup before its launch button is clicked: the phase of
\* launchViewer, the pings and injections of the execution, whether
\* launchViewer was sent, the button's loading class, the message shown
PopupIdle ==
  [tab |-> "web", phase |-> "idle", pings |-> 0, injections |-> 0,
   launchSent |-> FALSE, loadingClass |-> FALSE, message |-> "none",
   cause |-> "none"]

\* the popups the model follows: popup 1 is opened on the tab of the content
\* script, popup 2 on a tab of another hostname
PopupIds == {1, 2}

\* this.hostname of popup p (popup.js 25)
PopupHost(p) == IF p = 1 THEN "site" ELSE "other"

\* a popup that is not open: its phase, this.siteSettings, this.detectionMode,
\* the argument of the operation under way and the message shown last
\* and whether the notification of that operation reached the content
\* script
ClosedPopup ==
  [phase |-> "closed", siteSettings |-> [h \in {"site", "other"} |-> "none"],
   detectionMode |-> "auto", arg |-> "none", message |-> "none",
   delivered |-> FALSE]

NoPopups == [p \in PopupIds |-> ClosedPopup]

\* Date.now() when the content script starts, in ms after a moment long
\* before
StartMs == 1000

\* the time up to which the clock is followed
MaxMs == 2000

\* CONFIG.scrollDetectionThrottle (content.js 16)
scrollDetectionThrottle == 500

\* the clock and the scroll listener before AutoDetection.setup: lastCall of
\* Utils.throttle is 0 (content.js 92); scheduledAt is when the listener
\* last called scheduleRefresh, -1 before the first call
NoScroll ==
  [now |-> StartMs, lastCall |-> 0, listening |-> FALSE, scheduledAt |-> -1]

\* an addToggleButton without the test of elements.toggleButton
addToggleButtonAgain(button, n) == [toggleButton |-> TRUE, buttons |-> n + 1]

\* UI.addToggleButton (content.js 709-718) on elements.toggleButton (set or
\* null) and the number of buttons in the page
addToggleButton(button, n) ==
  IF button THEN [toggleButton |-> button, buttons |-> n]
  ELSE [toggleButton |-> TRUE, buttons |-> n + 1]

\* UI.removeToggleButton (content.js 719-724)
removeToggleButton(button, n) ==
  IF button THEN [toggleButton |-> FALSE, buttons |-> n - 1]
  ELSE [toggleButton |-> button, buttons |-> n]

\* Settings.updateUI (content.js 190-196)
updateUI(siteMode, button, n) ==
  IF siteMode = "show" THEN addToggleButton(button, n)
  ELSE removeToggleButton(button, n)

\* ------------------------------------------------------------------------
\* Initial states: the script has started (content.js 3-895 ran up to the
\* await of initialize), chrome.storage.sync.get is under way
\* ------------------------------------------------------------------------
\* chrome.storage.sync: the site modes of the mangaViewerDomains object, the
\* mangaDetectionMode_<hostname> and mangaViewerSinglePage_<hostname> keys,
\* mangaViewerBg and mangaViewerNiconicoThreshold (in percent).  "none", and
\* 0 for the threshold, stand for a key that is not there
EmptyStore ==
  [domains |-> [h \in Hosts |-> "none"],
   detectionMode |-> [h \in Hosts |-> "none"],
   singlePage |-> [h \in Hosts |-> "none"],
   bg |-> "none", threshold |-> 0]

\* the result of a chrome.storage.sync.get that has not answered
NothingRead ==
  [siteMode |-> "none", detectionMode |-> "none", singlePage |-> "none",
   threshold |-> 0]

\* what the store may hold when the page is opened
InitialStores ==
  {[EmptyStore EXCEPT !.domains[hostname] = site, !.domains["other"] = "show",
                      !.detectionMode[hostname] = mode,
                      !.detectionMode["other"] = "smart"] :
     site \in {"none", "show"}, mode \in {"none", "manga-reader"}}

\* the pages the session is run on
SessionPages ==
  {Page(ImgsOf(which), around[1], around[2], around[3], around[4]) :
     which \in {{}, {1, 2}, {1, 3}, {4}},
     around \in {<<<<>>, <<>>, "none", <<>>>>,
                 <<ResourcesA, <<>>, "none", <<>>>>,
                 <<<<>>, <<>>, "open", CanvasesA>>}}

InitSession ==
  /\ load = "pending"
  /\ loadResult = NothingRead
  /\ settings = InitialSettings
  /\ images = <<>>
  /\ currentPage = 0
  /\ detectedMode = "null"
  /\ toggleButton = FALSE
  /\ container = "none"
  /\ observing = FALSE
  /\ refreshTimer = -1
  /\ buttons = 0
  /\ unloaded = FALSE
  /\ poll = NoPoll
  /\ view = InitialView
  /\ loading = NotLoading
  /\ popup = PopupIdle
  /\ scroll = NoScroll
  /\ popups = NoPopups
  /\ log = Log("start", NoPass, "none", FALSE)

Init ==
  /\ page \in SessionPages
  /\ store \in InitialStores
  /\ InitSession

\* ------------------------------------------------------------------------
\* Settings.load and initialize
\* ------------------------------------------------------------------------
\* the result of the chrome.storage.sync.get of content.js 143-149 on a
\* store
StorageGet(sto) ==
  [siteMode |-> sto.domains[hostname],
   detectionMode |-> sto.detectionMode[hostname],
   singlePage |-> sto.singlePage[hostname],
   threshold |-> sto.threshold]

\* chrome.storage.sync.get answers (content.js 143-149)
StorageAnswers ==
  /\ load = "pending"
  /\ load' = "read"
  /\ loadResult' = StorageGet(store)
  /\ log' = Log("storageAnswers", NoPass, "none", FALSE)
  /\ UNCHANGED <<page, store, settings, images, currentPage, detectedMode,
                 toggleButton, container, observing, refreshTimer>>
  /\ UNCHANGED <<buttons, envVars, popup, popups>>

\* chrome.storage.sync.get rejects: the await in initialize throws and
\* initialize ends there (content.js 867)
LoadRejects ==
  /\ load = "pending"
  /\ load' = "rejected"
  /\ log' = Log("loadRejects", NoPass, "none", FALSE)
  /\ UNCHANGED <<page, store, loadResult, settings, images, currentPage,
                 detectedMode, toggleButton, container, observing, refreshTimer>>
  /\ UNCHANGED <<buttons, envVars, popup, popups>>

\* the assignments of Settings.load (content.js 151-158)
LoadedSettings(result, st) ==
  [st EXCEPT
     !.siteMode = IF result.siteMode = "none" THEN "hide" ELSE result.siteMode,
     !.detectionMode = IF result.detectionMode = "none" THEN "auto"
                       ELSE result.detectionMode,
     !.singlePageMode = (result.singlePage = "true"),
     !.niconicoThreshold = IF result.threshold = 0 THEN defaultThresholdPct
                           ELSE result.threshold]

\* the rest of Settings.load and of initialize (content.js 151-891):
\* Settings.updateUI, AutoDetection.setup, ImageManager.refresh
InitializeContinues ==
  /\ load = "read"
  /\ load' = "resolved"
  /\ LET Refreshed(st, r) ==
           /\ settings' = st
           /\ toggleButton' = updateUI(st.siteMode, toggleButton, buttons).toggleButton
           /\ buttons' = updateUI(st.siteMode, toggleButton, buttons).buttons
           /\ observing' = TRUE
           /\ images' = r.images
           /\ page' = r.page
           /\ detectedMode' = r.detectedMode
           /\ log' = Log("initialize", r, "none", FALSE)
         Loaded(st) == Refreshed(st, refresh(page, st, images, detectedMode))
     IN  Loaded(LoadedSettings(loadResult, settings))
  /\ UNCHANGED <<store, loadResult, currentPage, container, refreshTimer>>
  /\ poll' = [poll EXCEPT !.on = TRUE]
  /\ scroll' = [scroll EXCEPT !.listening = TRUE]
  /\ UNCHANGED <<unloaded, view, loading, popup, popups>>

\* ------------------------------------------------------------------------
\* The chrome.runtime.onMessage listener (content.js 794-860).  It is added
\* before initialize is called, so every message is handled in every state.
\* ------------------------------------------------------------------------
\* a task of the content script starts only in a tab in which the script is
\* running (load is "absent" where it is not).  The continuation of an await
\* runs as a microtask of the task that settled the promise: no message,
\* click or timer callback starts between the answer of
\* chrome.storage.sync.get and the rest of initialize (content.js 143, 867)
TaskCanStart == load \notin {"absent", "read"}

\* the modes the modelled popup sends with updateDetectionMode
MessageModes == {"auto", "manga-reader", "smart"}

\* a test that asks for more than the minimum
EnoughImagesStrict(imgs) == Len(imgs) > minMangaImageCount

\* state.images.length >= CONFIG.minMangaImageCount (content.js 805, 736)
EnoughImages(imgs) == Len(imgs) >= minMangaImageCount

\* a test that leaves out the session's mode
ShouldPersistInAnyMode(detected, mode) == detected # "null"

\* the test of content.js 806
ShouldPersist(detected, mode) == detected # "null" /\ mode = "auto"

\* chrome.storage.sync.set({ [key]: value }) with the detection-mode key of
\* the hostname (content.js 808-809)
StoreDetectionMode(sto, value) ==
  [sto EXCEPT !.detectionMode[hostname] = value]

\* case 'launchViewer' (content.js 803-817)
LaunchViewerCase ==
  TaskCanStart /\
  LET Open(r, persist, shown) ==
        /\ store' = IF persist THEN StoreDetectionMode(store, r.detectedMode)
                    ELSE store
        /\ settings' = IF persist
                       THEN [settings EXCEPT !.detectionMode = r.detectedMode]
                       ELSE settings
        /\ page' = shown.page
        /\ images' = shown.images
        /\ currentPage' = shown.currentPage
        /\ container' = shown.container
        /\ detectedMode' = r.detectedMode
        /\ log' = Log("launchViewer", r, "success", persist)
        /\ UNCHANGED <<load, loadResult, toggleButton, observing, refreshTimer>>
      Refreshed(r) ==
        IF EnoughImages(r.images)
        THEN Open(r, ShouldPersist(r.detectedMode, settings.detectionMode),
                  showPage(0, r.page, r.images, currentPage, container,
                           settings.singlePageMode))
        ELSE /\ page' = r.page
             /\ images' = r.images
             /\ detectedMode' = r.detectedMode
             /\ log' = Log("launchViewer", r, "insufficient_images", FALSE)
             /\ UNCHANGED <<store, load, loadResult, settings, currentPage,
                            toggleButton, container, observing, refreshTimer>>
  IN  IF detectThrows(settings.detectionMode)
      THEN /\ log' = Log("launchViewer",
                         [NoPass EXCEPT !.mode = settings.detectionMode],
                         "TypeError", FALSE)
           /\ UNCHANGED <<page, store, load, loadResult, settings, images,
                          currentPage, detectedMode, toggleButton, container,
                          observing, refreshTimer>>
      ELSE Refreshed(refresh(page, settings, images, detectedMode))

\* a launchViewer message from a sender the model does not follow
LaunchViewer ==
  /\ LaunchViewerCase
  /\ UNCHANGED <<buttons, envVars, popup, popups>>

\* the detectionMethods of case 'testDetection', in the order Object.entries
\* gives them (content.js 821-832)
detectionMethods ==
  <<"auto", "smart", "deep-scan", "basic", "frame-reader", "reading-content",
    "chapter-content", "manga-reader", "entry-content", "niconico-seiga">>

\* the loop of content.js 834-836 from method number k on: the results so
\* far, the page, state.detectedMode and the strategies run
RECURSIVE TestFrom(_, _, _, _, _, _)
TestFrom(k, pg, thresholdPct, detected, results, ran) ==
  IF k > Len(detectionMethods)
  THEN [results |-> results, page |-> pg, detectedMode |-> detected, ran |-> ran]
  ELSE LET Record(d) ==
             TestFrom(k + 1, d.page, thresholdPct, d.detectedMode,
                      Append(results, Len(d.images)), ran \o d.ran)
       IN  Record(detectByMode(detectionMethods[k], pg, thresholdPct, detected))

\* case 'testDetection' (content.js 819-839)
TestDetection ==
  TaskCanStart /\
  LET Respond(t) ==
        /\ page' = t.page
        /\ detectedMode' = t.detectedMode
        /\ log' = Log("testDetection",
                      [mode |-> "test", ran |-> t.ran, count |-> t.results[1],
                       sameUrls |-> FALSE, changed |-> FALSE,
                       results |-> t.results],
                      "results", FALSE)
        /\ UNCHANGED <<store, load, loadResult, settings, images, currentPage,
                       toggleButton, container, observing, refreshTimer>>
        /\ UNCHANGED <<buttons, envVars, popup, popups>>
  IN  Respond(TestFrom(1, page, settings.niconicoThreshold, detectedMode,
                       <<>>, <<>>))

\* case 'updateSiteMode' and Settings.updateUI (content.js 841-844, 190-196)
UpdateSiteModeCase(mode) ==
  /\ TaskCanStart
  /\ settings' = [settings EXCEPT !.siteMode = mode]
  /\ toggleButton' = updateUI(mode, toggleButton, buttons).toggleButton
  /\ buttons' = updateUI(mode, toggleButton, buttons).buttons
  /\ log' = Log("updateSiteMode", NoPass, mode, FALSE)
  /\ UNCHANGED <<page, store, load, loadResult, images, currentPage,
                 detectedMode, container, observing, refreshTimer>>

\* an updateSiteMode message from a sender the model does not follow
UpdateSiteMode(mode) ==
  /\ UpdateSiteModeCase(mode)
  /\ UNCHANGED <<envVars, popup, popups>>

\* case 'updateDetectionMode' (content.js 846-848)
UpdateDetectionModeCase(mode) ==
  /\ TaskCanStart
  /\ settings' = [settings EXCEPT !.detectionMode = mode]
  /\ log' = Log("updateDetectionMode", NoPass, mode, FALSE)
  /\ UNCHANGED <<page, store, load, loadResult, images, currentPage,
                 detectedMode, toggleButton, container, observing,
                 refreshTimer, buttons>>

\* an updateDetectionMode message from a sender the model does not follow
UpdateDetectionMode(mode) ==
  /\ UpdateDetectionModeCase(mode)
  /\ UNCHANGED <<envVars, popup, popups>>

\* Viewer.toggleSinglePageMode (content.js 687-694) on the state [settings,
\* page, images, currentPage, container]
toggleSinglePageMode(st, pg, imgs, cur, cont) ==
  LET Shown(newSettings, shown) ==
        [settings |-> newSettings, page |-> shown.page, images |-> shown.images,
         currentPage |-> shown.currentPage, container |-> shown.container]
  IN  Shown([st EXCEPT !.singlePageMode = ~st.singlePageMode],
            showPage(cur, pg, imgs, cur, cont, ~st.singlePageMode))

\* case 'updateDisplayMode' (content.js 850-856)
UpdateDisplayMode(isSingle) ==
  /\ TaskCanStart
  /\ LET Updated(u) ==
           /\ settings' = u.settings
           /\ page' = u.page
           /\ images' = u.images
           /\ currentPage' = u.currentPage
           /\ container' = u.container
         Assigned(st) ==
           IF container = "flex"
           THEN Updated(toggleSinglePageMode(st, page, images, currentPage,
                                             container))
           ELSE Updated([settings |-> st, page |-> page, images |-> images,
                         currentPage |-> currentPage, container |-> container])
     IN  Assigned([settings EXCEPT !.singlePageMode = isSingle])
  /\ log' = Log("updateDisplayMode", NoPass,
                IF isSingle THEN "single" ELSE "double", FALSE)
  /\ UNCHANGED <<store, load, loadResult, detectedMode, toggleButton,
                 observing, refreshTimer>>
  /\ UNCHANGED <<buttons, envVars, popup, popups>>

\* ------------------------------------------------------------------------
\* The toggle button
\* ------------------------------------------------------------------------
\* the click listener of setupToggleButtonEvents (content.js 734-741)
ToggleButtonClick ==
  /\ TaskCanStart
  /\ toggleButton
  /\ LET Shown(r, shown) ==
           /\ page' = shown.page
           /\ images' = shown.images
           /\ currentPage' = shown.currentPage
           /\ container' = shown.container
           /\ detectedMode' = r.detectedMode
           /\ log' = Log("toggleClick", r, "none", FALSE)
         Refreshed(r) ==
           Shown(r, IF EnoughImages(r.images)
                    THEN showPage(0, r.page, r.images, currentPage, container,
                                  settings.singlePageMode)
                    ELSE [page |-> r.page, images |-> r.images,
                          currentPage |-> currentPage, container |-> container])
     IN  Refreshed(refresh(page, settings, images, detectedMode))
  /\ UNCHANGED <<store, load, loadResult, settings, toggleButton, observing,
                 refreshTimer>>
  /\ UNCHANGED <<buttons, envVars, popup, popups>>

\* ------------------------------------------------------------------------
\* The refresh controller
\* ------------------------------------------------------------------------
\* the object that `this` names inside the arrow functions Utils.debounce
\* returns (content.js 84-90): debounce is called as a method of Utils
\* (content.js 508), and an arrow function takes the this of where it is
\* written
DebounceThis == "Utils"

\* the objects of content.js that have a method named refresh: Utils
\* (content.js 83-131) has none, ImageManager has (content.js 509)
HasRefreshMethod(object) == object = "ImageManager"

\* ImageManager.scheduleRefresh(): clearTimeout, then setTimeout with
\* CONFIG.refreshDebounceMs (content.js 86-88, 508)
scheduleRefresh == refreshDebounceMs

\* the elements a script of the page may add
AddedImgs == {2, 6}

\* imgs with ImgPool[j] put in at its place in document order
InsertImg(imgs, j) ==
  LET Before(img) == img.i < j
      After(img) == img.i > j
  IN  SelectSeq(imgs, Before) \o <<ImgPool[j]>> \o SelectSeq(imgs, After)

\* a script of the page adds an <img>; the MutationObserver's callback
\* (content.js 474-484) schedules a refresh
MutationAddsImg(j) ==
  /\ TaskCanStart
  /\ Len(page.imgs) < MaxDomImgs
  /\ \A k \in 1..Len(page.imgs) : page.imgs[k].i # j
  /\ page' = [page EXCEPT !.imgs = InsertImg(page.imgs, j)]
  /\ refreshTimer' = IF observing THEN scheduleRefresh ELSE refreshTimer
  /\ log' = Log("mutation", NoPass,
                "none", FALSE)
  /\ UNCHANGED <<store, load, loadResult, settings, images, currentPage,
                 detectedMode, toggleButton, container, observing>>
  /\ UNCHANGED <<buttons, envVars, popup, popups>>

\* an <img> of the page finishes loading: its load listener, if
\* attachWatchers added one, runs once (content.js 525)
ImageLoads(k) ==
  /\ TaskCanStart
  /\ k \in 1..Len(page.imgs)
  /\ ~page.imgs[k].complete
  /\ page.imgs[k].src # NoUrl
  /\ LET Loaded(el, img) ==
           /\ page' = [page EXCEPT
                         !.imgs[k] = [img EXCEPT !.complete = TRUE,
                                                 !.nw = img.src.w,
                                                 !.nh = img.src.h],
                         !.armed = page.armed \ {el}]
           /\ refreshTimer' = IF el \in page.armed THEN scheduleRefresh
                               ELSE refreshTimer
           /\ log' = Log("imageLoad", NoPass,
                         IF el \in page.armed THEN "scheduled" ELSE "none",
                         FALSE)
     IN  Loaded([doc |-> page.imgs[k].doc, i |-> page.imgs[k].i], page.imgs[k])
  /\ UNCHANGED <<store, load, loadResult, settings, images, currentPage,
                 detectedMode, toggleButton, container, observing>>
  /\ UNCHANGED <<buttons, envVars, popup, popups>>

\* time passes: by TickMs, or up to the moment the pending timer is due
Advance(ms) ==
  /\ refreshTimer > 0
  /\ ms > 0
  /\ ms <= refreshTimer
  /\ refreshTimer' = refreshTimer - ms
  /\ log' = Log("advance", NoPass,
                "none", FALSE)
  /\ UNCHANGED <<page, store, load, loadResult, settings, images, currentPage,
                 detectedMode, toggleButton, container, observing>>
  /\ UNCHANGED <<buttons, envVars, popup, popups>>

\* the timer of the debounce is due: () => func.apply(this, args) runs
\* function() { this.refresh(); } with DebounceThis as this (content.js 88,
\* 508).  Without a refresh method there the call throws a TypeError, which
\* nothing catches, and the callback ends
RefreshTimerFires ==
  /\ TaskCanStart
  /\ refreshTimer = 0
  /\ refreshTimer' = -1
  /\ IF HasRefreshMethod(DebounceThis)
     THEN LET Refreshed(r) ==
                /\ images' = r.images
                /\ page' = r.page
                /\ detectedMode' = r.detectedMode
                /\ log' = Log("refreshTimer", r, "none", FALSE)
          IN  Refreshed(refresh(page, settings, images, detectedMode))
     ELSE /\ log' = Log("refreshTimer", NoPass, "TypeError", FALSE)
          /\ UNCHANGED <<images, page, detectedMode>>
  /\ UNCHANGED <<store, load, loadResult, settings, currentPage, toggleButton,
                 container, observing>>
  /\ UNCHANGED <<buttons, envVars, popup, popups>>

\* ImageManager.refresh() called on its own (content.js 509-522)
Refresh ==
  /\ LET Refreshed(r) ==
           /\ images' = r.images
           /\ page' = r.page
           /\ detectedMode' = r.detectedMode
           /\ log' = Log("refresh", r, "none", FALSE)
     IN  Refreshed(refresh(page, settings, images, detectedMode))
  /\ UNCHANGED <<store, load, loadResult, settings, currentPage, toggleButton,
                 container, observing, refreshTimer>>
  /\ UNCHANGED <<buttons, envVars, popup, popups>>

\* ------------------------------------------------------------------------
\* Load everything: ImageManager.loadAll and its timers, the poll timer and
\* the teardown.  The delays of the step timers (10, 100, 800 and 1000 ms)
\* are not modelled: a timer that is set fires at some later moment
\* ------------------------------------------------------------------------
\* maxAttempts of NiconicoExtractor.loadAllPages (content.js 247)
maxAttempts == 50

\* the scrollHeight up to which the modelled page grows while it is scrolled
MaxScrollHeight == 1500

\* windowObj.scrollTo(0, y): the position is kept inside the scrollable range
scrollTo(w, y) ==
  LET most == IF w.scrollHeight > w.innerHeight
              THEN w.scrollHeight - w.innerHeight ELSE 0
  IN  [w EXCEPT !.top = IF y < 0 THEN 0 ELSE IF y > most THEN most ELSE y]

\* Math.max(500, viewportHeight) (content.js 551)
scrollStep(w) == IF w.innerHeight > 500 THEN w.innerHeight ELSE 500

\* scrollAndLoad (content.js 552-556) on the sequence ld and the windows vw:
\* the scroll, and the timer it sets
scrollAndLoad(ld, vw) ==
  LET Scrolled(to) ==
        [loading |-> [ld EXCEPT !.currentScroll = to,
                                !.phase = IF to < ld.documentHeight
                                                  - vw[ld.window].innerHeight
                                          THEN "step" ELSE "final"],
         view |-> [vw EXCEPT ![ld.window] = scrollTo(vw[ld.window], to)]]
  IN  Scrolled(ld.currentScroll + scrollStep(vw[ld.window]))

\* performScrollLoad (content.js 548-558) up to the first timer
performScrollLoad(ld, vw, which, originalScrollTop) ==
  scrollAndLoad([ld EXCEPT !.window = which, !.currentScroll = 0,
                           !.documentHeight = vw[which].scrollHeight,
                           !.originalScrollTop = originalScrollTop,
                           !.startTop = vw[which].top,
                           !.button = "1"], vw)

\* finishLoadAll (content.js 559-564)
finishLoadAll(ld) == [ld EXCEPT !.phase = "idle", !.button = "0"]

\* a loadAll that does not look at the button's flag
AlreadyLoadingNever(ld) == FALSE

\* buttonElement?.dataset.loading === '1' (content.js 529)
AlreadyLoading(ld) == ld.button = "1"

\* a click on the viewer's load button: ImageManager.loadAll (content.js
\* 528-547)
LoadAll ==
  /\ TaskCanStart
  /\ container = "flex"
  /\ IF AlreadyLoading(loading)
     THEN /\ log' = Log("loadAll", NoPass, "ignored", FALSE)
          /\ UNCHANGED <<loading, view, refreshTimer>>
     ELSE IF settings.detectionMode = "niconico-seiga"
     THEN /\ loading' = [NotLoading EXCEPT !.phase = "interval",
                                           !.button = "1",
                                           !.startTop = view.main.top]
          /\ log' = Log("loadAll", NoPass, "none", FALSE)
          /\ UNCHANGED <<view, refreshTimer>>
     ELSE IF settings.detectionMode = "frame-reader" /\ page.iframe = "none"
     THEN /\ loading' = [loading EXCEPT !.button = "1"]
          /\ log' = Log("loadAll", NoPass, "returned", FALSE)
          /\ UNCHANGED <<view, refreshTimer>>
     ELSE IF settings.detectionMode = "frame-reader" /\ page.iframe # "open"
     THEN /\ loading' = finishLoadAll([NotLoading EXCEPT
                                         !.window = "frame",
                                         !.startTop = view.frame.top])
          /\ log' = Log("loadAll", NoPass, "finished", FALSE)
          /\ UNCHANGED <<view, refreshTimer>>
     ELSE LET Started(sl) ==
                /\ loading' = sl.loading
                /\ view' = sl.view
                /\ refreshTimer' = scheduleRefresh
                /\ log' = Log("loadAll", NoPass, "none", FALSE)
              Scroll(which) ==
                Started(performScrollLoad(NotLoading, view, which,
                                          view[which].top))
          IN  Scroll(IF settings.detectionMode = "frame-reader"
                     THEN "frame" ELSE "main")
  /\ UNCHANGED <<page, store, load, loadResult, settings, images, currentPage,
                 detectedMode, toggleButton, container, observing, buttons,
                 unloaded, poll, popup, popups>>
  /\ UNCHANGED scroll

\* the 10 ms timer of performScrollLoad fires: scrollAndLoad (content.js
\* 552-556)
LoadAllStep ==
  /\ TaskCanStart
  /\ loading.phase = "step"
  /\ LET Stepped(sl) ==
           /\ loading' = sl.loading
           /\ view' = sl.view
     IN  Stepped(scrollAndLoad(loading, view))
  /\ refreshTimer' = scheduleRefresh
  /\ log' = Log("loadAllStep", NoPass, "none", FALSE)
  /\ UNCHANGED <<page, store, load, loadResult, settings, images, currentPage,
                 detectedMode, toggleButton, container, observing, buttons,
                 unloaded, poll, popup, popups>>
  /\ UNCHANGED scroll

\* the 100 ms timer of performScrollLoad fires (content.js 556): the scroll
\* back, ImageManager.refresh and finishLoadAll
LoadAllFinal ==
  /\ TaskCanStart
  /\ loading.phase = "final"
  /\ view' = [view EXCEPT ![loading.window] =
                scrollTo(view[loading.window], loading.originalScrollTop)]
  /\ loading' = finishLoadAll(loading)
  /\ LET Refreshed(r) ==
           /\ images' = r.images
           /\ page' = r.page
           /\ detectedMode' = r.detectedMode
           /\ log' = Log("loadAllFinal", r, "finished", FALSE)
     IN  Refreshed(refresh(page, settings, images, detectedMode))
  /\ UNCHANGED <<store, load, loadResult, settings, currentPage, toggleButton,
                 container, observing, refreshTimer, buttons, unloaded, poll,
                 popup, popups>>
  /\ UNCHANGED scroll

\* the 800 ms interval of NiconicoExtractor.loadAllPages fires (content.js
\* 248-256)
NiconicoInterval ==
  /\ TaskCanStart
  /\ loading.phase = "interval"
  /\ view' = [view EXCEPT !.main = scrollTo(view.main, view.main.scrollHeight)]
  /\ loading' = [loading EXCEPT
                   !.attempts = loading.attempts + 1,
                   !.lastHeight = view.main.scrollHeight,
                   !.phase = IF \/ view.main.scrollHeight = loading.lastHeight
                                \/ loading.attempts + 1 >= maxAttempts
                             THEN "callback" ELSE "interval"]
  /\ log' = Log("niconicoInterval", NoPass, "none", FALSE)
  /\ UNCHANGED <<page, store, load, loadResult, settings, images, currentPage,
                 detectedMode, toggleButton, container, observing,
                 refreshTimer, buttons, unloaded, poll, popup, popups>>
  /\ UNCHANGED scroll

\* the 1000 ms timer of loadAllPages fires: the callback of
\* loadAllFromNiconico (content.js 254, 538)
NiconicoCallback ==
  /\ TaskCanStart
  /\ loading.phase = "callback"
  /\ loading' = finishLoadAll(loading)
  /\ LET Refreshed(r) ==
           /\ images' = r.images
           /\ page' = r.page
           /\ detectedMode' = r.detectedMode
           /\ log' = Log("niconicoCallback", r, "finished", FALSE)
     IN  Refreshed(refresh(page, settings, images, detectedMode))
  /\ UNCHANGED <<store, load, loadResult, settings, currentPage, toggleButton,
                 container, observing, refreshTimer, buttons, unloaded, poll,
                 view, popup, popups>>
  /\ UNCHANGED scroll

\* the page loads more content below while it is scrolled
PageGrows ==
  /\ load # "absent"
  /\ view.main.scrollHeight + 900 <= MaxScrollHeight
  /\ view' = [view EXCEPT !.main.scrollHeight = view.main.scrollHeight + 900]
  /\ log' = Log("pageGrows", NoPass, "none", FALSE)
  /\ UNCHANGED <<page, store, load, loadResult, settings, images, currentPage,
                 detectedMode, toggleButton, container, observing,
                 refreshTimer, buttons, unloaded, poll, loading, popup, popups>>
  /\ UNCHANGED scroll

\* a throttle whose window starts again at every call
handleScrollSliding(sc) ==
  [scroll |-> [sc EXCEPT !.lastCall = sc.now],
   called |-> sc.now - sc.lastCall >= scrollDetectionThrottle]

\* handleScroll, the function Utils.throttle returns (content.js 93-99, 488):
\* lastCall after the call, and whether func was called
handleScroll(sc) ==
  IF sc.now - sc.lastCall >= scrollDetectionThrottle
  THEN [scroll |-> [sc EXCEPT !.lastCall = sc.now], called |-> TRUE]
  ELSE [scroll |-> sc, called |-> FALSE]

\* a scroll event of the window reaches the listener of setupScrollListener
\* (content.js 487-490)
ScrollEvent ==
  /\ TaskCanStart
  /\ scroll.listening
  /\ LET Handled(h) ==
           /\ scroll' = [h.scroll EXCEPT
                           !.scheduledAt = IF h.called THEN scroll.now ELSE @]
           /\ refreshTimer' = IF h.called THEN scheduleRefresh
                               ELSE refreshTimer
           /\ log' = Log("scroll", NoPass,
                         IF h.called THEN "scheduled" ELSE "dropped", FALSE)
     IN  Handled(handleScroll(scroll))
  /\ UNCHANGED <<page, store, load, loadResult, settings, images, currentPage,
                 detectedMode, toggleButton, container, observing, buttons,
                 unloaded, poll, view, loading, popup, popups>>

\* ms of time pass on the clock and on the pending timer of the debounce,
\* not beyond the moment the timer is due
ScrollTime(ms) ==
  /\ ms > 0
  /\ scroll.now + ms <= MaxMs
  /\ refreshTimer # 0
  /\ refreshTimer > 0 => ms <= refreshTimer
  /\ scroll' = [scroll EXCEPT !.now = scroll.now + ms]
  /\ refreshTimer' = IF refreshTimer > 0 THEN refreshTimer - ms
                      ELSE refreshTimer
  /\ log' = Log("advance", NoPass, "none", FALSE)
  /\ UNCHANGED <<page, store, load, loadResult, settings, images, currentPage,
                 detectedMode, toggleButton, container, observing, buttons,
                 unloaded, poll, view, loading, popup, popups>>

\* a poll tick that schedules on a changed count without remembering it
PollTickForgetful ==
  /\ TaskCanStart
  /\ poll.on
  /\ refreshTimer' =
       IF Len(page.imgs) + Len(page.viewer) + Len(page.canvases)
            # poll.lastImageCount
       THEN scheduleRefresh ELSE refreshTimer
  /\ log' = Log("pollTick", NoPass, "none", FALSE)
  /\ UNCHANGED <<page, store, load, loadResult, settings, images, currentPage,
                 detectedMode, toggleButton, container, observing, buttons,
                 unloaded, poll, view, loading, popup, scroll, popups>>

\* the interval of AutoDetection.setupPolling fires (content.js 492-498)
PollTick ==
  /\ TaskCanStart
  /\ poll.on
  /\ LET Counted(currentImageCount) ==
           IF currentImageCount # poll.lastImageCount
           THEN /\ poll' = [poll EXCEPT !.lastImageCount = currentImageCount]
                /\ refreshTimer' = scheduleRefresh
           ELSE UNCHANGED <<poll, refreshTimer>>
     IN  Counted(Len(page.imgs) + Len(page.viewer) + Len(page.canvases))
  /\ log' = Log("pollTick", NoPass, "none", FALSE)
  /\ UNCHANGED <<page, store, load, loadResult, settings, images, currentPage,
                 detectedMode, toggleButton, container, observing, buttons,
                 unloaded, view, loading, popup, popups>>
  /\ UNCHANGED scroll

\* the beforeunload listener of initialize: AutoDetection.stop (content.js
\* 500-503, 885-888).  clearTimeout is called on the four fields of timers,
\* of which only polling is ever assigned
BeforeUnload ==
  /\ TaskCanStart
  /\ load = "resolved"
  /\ unloaded' = TRUE
  /\ observing' = FALSE
  /\ poll' = [poll EXCEPT !.on = FALSE]
  /\ log' = Log("beforeunload", NoPass, "none", FALSE)
  /\ UNCHANGED <<page, store, load, loadResult, settings, images, currentPage,
                 detectedMode, toggleButton, container, refreshTimer, buttons,
                 view, loading, popup, popups>>
  /\ UNCHANGED scroll

\* ------------------------------------------------------------------------
\* Spec: the content script on a page that does not change by itself: the
\* settings load, initialize, the messages and the toggle button
\* ------------------------------------------------------------------------
Next ==
  \/ StorageAnswers
  \/ LoadRejects
  \/ InitializeContinues
  \/ LaunchViewer
  \/ TestDetection
  \/ \E mode \in {"show", "hide"} : UpdateSiteMode(mode)
  \/ \E mode \in MessageModes : UpdateDetectionMode(mode)
  \/ ToggleButtonClick

Spec == Init /\ [][Next]_vars

\* ------------------------------------------------------------------------
\* SpecRefresh: the refresh controller on a page whose scripts add images
\* while time passes
\* ------------------------------------------------------------------------
InitRefresh ==
  /\ page \in SessionPages
  /\ store \in {s \in InitialStores : s.domains[hostname] = "show"}
  /\ InitSession

NextRefresh ==
  \/ StorageAnswers
  \/ InitializeContinues
  \/ \E mode \in MessageModes : UpdateDetectionMode(mode)
  \/ ToggleButtonClick
  \/ \E j \in AddedImgs : MutationAddsImg(j)
  \/ \E ms \in {TickMs, refreshTimer} : Advance(ms)
  \/ RefreshTimerFires

SpecRefresh == InitRefresh /\ [][NextRefresh]_vars

\* SpecRefresh with the timers of the browser: time passes up to the moment
\* a pending timer is due, and a due timer's callback is run
SpecRefreshFair ==
  /\ SpecRefresh
  /\ WF_vars(Advance(refreshTimer))
  /\ WF_vars(RefreshTimerFires)

\* ------------------------------------------------------------------------
\* The popup: PopupManager.launchViewer (popup.js 124-194), one execution at
\* a time.  A tab whose content script is not running has load = "absent";
\* chrome.tabs.sendMessage rejects exactly there
\* ------------------------------------------------------------------------
\* the tabs the popup is opened on: no tab information, a chrome:// page, a
\* page scripts cannot be injected into, a web page
TabKinds == {"none", "chrome", "restricted", "web"}

\* the catch of launchViewer (popup.js 178-193): the message is shown and the
\* button is restored
GiveUp(pp, cause, message) ==
  [pp EXCEPT !.phase = "failed", !.cause = cause, !.message = message,
             !.loadingClass = FALSE]

\* a click on the launch button up to the first await (popup.js 124-141)
PopupClick ==
  /\ popup.phase \in {"idle", "done", "failed"}
  /\ LET Started(pp) ==
           IF pp.tab = "none" THEN popup' = GiveUp(pp, "tab", "no-tab")
           ELSE IF pp.tab = "chrome"
           THEN popup' = GiveUp(pp, "tab", "unsupported-page")
           ELSE popup' = [pp EXCEPT !.phase = "ping1", !.pings = 1]
     IN  Started([PopupIdle EXCEPT !.tab = popup.tab, !.loadingClass = TRUE])
  /\ log' = Log("popupClick", NoPass, "none", FALSE)
  /\ UNCHANGED <<page, store, load, loadResult, settings, images, currentPage,
                 detectedMode, toggleButton, container, observing,
                 refreshTimer, buttons, envVars, popups>>

\* case 'ping' answers (content.js 799): the popup goes on to send
\* launchViewer (popup.js 160-162)
PingAnswered ==
  /\ popup.phase \in {"ping1", "ping2"}
  /\ load # "absent"
  /\ popup' = [popup EXCEPT !.phase = "launch", !.launchSent = TRUE]
  /\ log' = Log("ping", NoPass, "pong", FALSE)
  /\ UNCHANGED <<page, store, load, loadResult, settings, images, currentPage,
                 detectedMode, toggleButton, container, observing,
                 refreshTimer, buttons, envVars, popups>>

\* a launchViewer whose second failed ping starts another injection
PingFailsRetrying ==
  /\ popup.phase \in {"ping1", "ping2"}
  /\ load = "absent"
  /\ popup' = [popup EXCEPT !.phase = "inject",
                            !.injections = popup.injections + 1]
  /\ log' = Log("ping", NoPass, "rejected", FALSE)
  /\ UNCHANGED <<page, store, load, loadResult, settings, images, currentPage,
                 detectedMode, toggleButton, container, observing,
                 refreshTimer, buttons, envVars, popups>>

\* sendMessage of a ping rejects: after the first ping executeScript is
\* called (popup.js 142-149), after the second the inner catch throws and
\* the outer catch gives up (popup.js 154-156, 178-193)
PingFails ==
  /\ popup.phase \in {"ping1", "ping2"}
  /\ load = "absent"
  /\ popup' = IF popup.phase = "ping1"
              THEN [popup EXCEPT !.phase = "inject",
                                 !.injections = popup.injections + 1]
              ELSE GiveUp(popup, "ping2", "inject-failed")
  /\ log' = Log("ping", NoPass, "rejected", FALSE)
  /\ UNCHANGED <<page, store, load, loadResult, settings, images, currentPage,
                 detectedMode, toggleButton, container, observing,
                 refreshTimer, buttons, envVars, popups>>

\* executeScript resolves (popup.js 146-149): content.js runs in the tab up
\* to the storage read of initialize, and the popup waits 1000 ms
InjectSucceeds ==
  /\ popup.phase = "inject"
  /\ popup.tab = "web"
  /\ load = "absent"
  /\ load' = "pending"
  /\ popup' = [popup EXCEPT !.phase = "wait"]
  /\ log' = Log("executeScript", NoPass, "injected", FALSE)
  /\ UNCHANGED <<page, store, loadResult, settings, images, currentPage,
                 detectedMode, toggleButton, container, observing,
                 refreshTimer, buttons, envVars, popups>>

\* executeScript rejects: the inner catch throws, the outer one gives up
\* (popup.js 154-156, 178-193)
InjectFails ==
  /\ popup.phase = "inject"
  /\ popup.tab = "restricted"
  /\ popup' = GiveUp(popup, "inject", "inject-failed")
  /\ log' = Log("executeScript", NoPass, "rejected", FALSE)
  /\ UNCHANGED <<page, store, load, loadResult, settings, images, currentPage,
                 detectedMode, toggleButton, container, observing,
                 refreshTimer, buttons, envVars, popups>>

\* the 1000 ms wait ends and the second ping is sent (popup.js 152-153)
WaitEnds ==
  /\ popup.phase = "wait"
  /\ popup' = [popup EXCEPT !.phase = "ping2", !.pings = popup.pings + 1]
  /\ log' = Log("wait", NoPass, "none", FALSE)
  /\ UNCHANGED <<page, store, load, loadResult, settings, images, currentPage,
                 detectedMode, toggleButton, container, observing,
                 refreshTimer, buttons, envVars, popups>>

\* the launchViewer message of the popup is handled in the tab (content.js
\* 803-817) and its answer read (popup.js 164-176)
PopupLaunchDelivered ==
  /\ popup.phase = "launch"
  /\ LaunchViewerCase
  /\ popup' = IF log'.response = "success"
              THEN [popup EXCEPT !.phase = "done"]
              ELSE GiveUp(popup, "launch", log'.response)
  /\ UNCHANGED <<buttons, envVars, popups>>

\* sendMessage of launchViewer rejects (popup.js 160, 178-193)
LaunchFails ==
  /\ popup.phase = "launch"
  /\ load = "absent"
  /\ popup' = GiveUp(popup, "launch", "no-connection")
  /\ log' = Log("launchViewer", NoPass, "rejected", FALSE)
  /\ UNCHANGED <<page, store, load, loadResult, settings, images, currentPage,
                 detectedMode, toggleButton, container, observing,
                 refreshTimer, buttons, envVars, popups>>

\* the tab leaves the page for one without a running content script
TabNavigates ==
  /\ popup.tab = "web"
  /\ load # "absent"
  /\ load' = "absent"
  /\ page' = [page EXCEPT !.viewer = <<>>, !.watched = {}, !.armed = {}]
  /\ loadResult' = NothingRead
  /\ settings' = InitialSettings
  /\ images' = <<>>
  /\ currentPage' = 0
  /\ detectedMode' = "null"
  /\ toggleButton' = FALSE
  /\ container' = "none"
  /\ observing' = FALSE
  /\ refreshTimer' = -1
  /\ buttons' = 0
  /\ poll' = NoPoll
  /\ log' = Log("navigate", NoPass, "none", FALSE)
  /\ scroll' = NoScroll
  /\ UNCHANGED <<store, unloaded, view, loading, popup, popups>>

\* ------------------------------------------------------------------------
\* SpecPopup: the launch button of the popup on the kinds of tabs
\* ------------------------------------------------------------------------
PopupPages ==
  {Page(ImgsOf(which), <<>>, <<>>, "none", <<>>) : which \in {{}, {1, 2}}}

InitPopup ==
  /\ page \in PopupPages
  /\ store \in InitialStores
  /\ \E tab \in TabKinds :
       /\ popup = [PopupIdle EXCEPT !.tab = tab]
       /\ load \in IF tab = "web" THEN {"absent", "pending"} ELSE {"absent"}
  /\ loadResult = NothingRead
  /\ settings = InitialSettings
  /\ images = <<>>
  /\ currentPage = 0
  /\ detectedMode = "null"
  /\ toggleButton = FALSE
  /\ container = "none"
  /\ observing = FALSE
  /\ refreshTimer = -1
  /\ buttons = 0
  /\ unloaded = FALSE
  /\ poll = NoPoll
  /\ view = InitialView
  /\ loading = NotLoading
  /\ scroll = NoScroll
  /\ popups = NoPopups
  /\ log = Log("start", NoPass, "none", FALSE)

NextPopup ==
  \/ StorageAnswers
  \/ InitializeContinues
  \/ PopupClick
  \/ PingAnswered
  \/ PingFails
  \/ InjectSucceeds
  \/ InjectFails
  \/ WaitEnds
  \/ PopupLaunchDelivered
  \/ LaunchFails
  \/ TabNavigates
  \/ \E isSingle \in BOOLEAN : UpdateDisplayMode(isSingle)

SpecPopup == InitPopup /\ [][NextPopup]_vars

\* ------------------------------------------------------------------------
\* SpecWatch: pages with an image that is still loading, with the timers of
\* the browser
\* ------------------------------------------------------------------------
InitWatch ==
  /\ page \in {Page(ImgsOf(which \cup {7}), <<>>, <<>>, "none", <<>>) :
                 which \in SUBSET {1, 2}}
  /\ store \in {[EmptyStore EXCEPT !.domains[hostname] = site,
                                   !.detectionMode[hostname] = mode] :
                  site \in {"none", "show"},
                  mode \in {"none", "basic", "manga-reader"}}
  /\ InitSession

NextWatch ==
  \/ StorageAnswers
  \/ InitializeContinues
  \/ LaunchViewer
  \/ ToggleButtonClick
  \/ \E k \in 1..MaxDomImgs : ImageLoads(k)
  \/ Advance(refreshTimer)
  \/ RefreshTimerFires

SpecWatch ==
  /\ InitWatch
  /\ [][NextWatch]_vars
  /\ WF_vars(Advance(refreshTimer))
  /\ WF_vars(RefreshTimerFires)

\* ------------------------------------------------------------------------
\* SpecScroll: scroll events on a page while time passes
\* ------------------------------------------------------------------------
InitScroll ==
  /\ page \in {pg \in SessionPages : pg.resources = <<>> /\ pg.iframe = "none"}
  /\ store \in {st \in InitialStores : st.detectionMode[hostname] = "none"}
  /\ InitSession

NextScroll ==
  \/ StorageAnswers
  \/ InitializeContinues
  \/ ScrollEvent
  \/ \E ms \in {TickMs, refreshTimer} : ScrollTime(ms)
  \/ RefreshTimerFires

SpecScroll == InitScroll /\ [][NextScroll]_vars

\* ------------------------------------------------------------------------
\* SpecLoadAll: the viewer is opened, everything is loaded in the modes of
\* loadAll, and the page is torn down
\* ------------------------------------------------------------------------
\* the modes the store holds for the site in this specification
LoadAllModes == {"basic", "frame-reader", "niconico-seiga"}

\* the pages of this specification hold two images, so that the viewer opens
LoadAllPages ==
  {Page(ImgsOf({1, 2}), around[1], around[2], around[3], around[4]) :
     around \in {<<<<>>, <<>>, "none", <<>>>>,
                 <<<<>>, <<>>, "open", CanvasesA>>,
                 <<<<>>, <<>>, "denied", <<>>>>}}

\* the windows are scrolled to the top or a little down when the script starts
LoadAllViews ==
  {[main |-> Window(600, height, top), frame |-> Window(400, 1500, top)] :
     height \in {600, 1500}, top \in {0, 300}}

InitLoadAll ==
  /\ page \in LoadAllPages
  /\ store \in {[EmptyStore EXCEPT !.domains[hostname] = "show",
                                   !.detectionMode[hostname] = mode] :
                  mode \in LoadAllModes}
  /\ load = "pending"
  /\ loadResult = NothingRead
  /\ settings = InitialSettings
  /\ images = <<>>
  /\ currentPage = 0
  /\ detectedMode = "null"
  /\ toggleButton = FALSE
  /\ container = "none"
  /\ observing = FALSE
  /\ refreshTimer = -1
  /\ buttons = 0
  /\ unloaded = FALSE
  /\ poll = NoPoll
  /\ view \in {vw \in LoadAllViews :
                 vw.main = scrollTo(vw.main, vw.main.top)}
  /\ loading = NotLoading
  /\ popup = PopupIdle
  /\ scroll = NoScroll
  /\ popups = NoPopups
  /\ log = Log("start", NoPass, "none", FALSE)

NextLoadAll ==
  \/ StorageAnswers
  \/ InitializeContinues
  \/ LaunchViewer
  \/ UpdateDetectionMode("frame-reader")
  \/ LoadAll
  \/ LoadAllStep
  \/ LoadAllFinal
  \/ NiconicoInterval
  \/ NiconicoCallback
  \/ PageGrows
  \/ PollTick
  \/ BeforeUnload
  \/ Advance(refreshTimer)
  \/ RefreshTimerFires

SpecLoadAll == InitLoadAll /\ [][NextLoadAll]_vars

\* the 100 ms timer of performScrollLoad or the 1000 ms timer of
\* loadAllPages fires: what a step of LoadAllFinal or of NiconicoCallback
\* does to the sequence
FinalTimerFires ==
  /\ loading.phase \in {"final", "callback"}
  /\ loading' = finishLoadAll(loading)

\* SpecLoadAll with the scheduling of the browser: the continuation of
\* initialize runs, and a step timer that is set fires.  For the two final
\* timers weak fairness is written out, with the condition under which
\* LoadAllFinal or NiconicoCallback can be taken
SpecLoadAllFair ==
  /\ SpecLoadAll
  /\ []<>(load # "read")
  /\ WF_vars(LoadAllStep)
  /\ WF_vars(NiconicoInterval)
  /\ \/ []<>(~(TaskCanStart /\ loading.phase \in {"final", "callback"}))
     \/ []<><<FinalTimerFires>>_vars

\* ------------------------------------------------------------------------
\* SpecDetect: detection passes on every page of Pages in every mode, the
\* settings loaded and state.detectedMode left by an earlier pass or null
\* ------------------------------------------------------------------------
\* ------------------------------------------------------------------------
\* The settings of the popup (popup.js 34-48, 266-315, 454-484).  Every await
\* of the popup is a step of its own: the other popup, the storage and the
\* content script may act between two of them.  A popup runs one operation
\* at a time
\* ------------------------------------------------------------------------
\* the content script of the tab may be handed a message of popup p: popup 2
\* is on another tab, whose content script is not followed
ReachesScript(p) == p = 1 /\ load # "absent"

\* the popup is opened: init calls getCurrentTab and loadSettings, whose
\* first get is under way (popup.js 10-13, 34-36)
PopupOpens(p) ==
  /\ popups[p].phase = "closed"
  /\ popups' = [popups EXCEPT ![p].phase = "loadDomains"]
  /\ log' = Log("popupOpens", NoPass, PopupHost(p), FALSE)
  /\ UNCHANGED <<page, store, load, loadResult, settings, images, currentPage,
                 detectedMode, toggleButton, container, observing,
                 refreshTimer, buttons, envVars, popup>>

\* the two gets of loadSettings answer, one after the other (popup.js 36-41);
\* after the second init goes on to setupEventListeners and updateUI
PopupLoadsSettings(p) ==
  /\ popups[p].phase \in {"loadDomains", "loadMode"}
  /\ popups' =
       IF popups[p].phase = "loadDomains"
       THEN [popups EXCEPT ![p].phase = "loadMode",
                           ![p].siteSettings = store.domains]
       ELSE [popups EXCEPT
               ![p].phase = "ready",
               ![p].detectionMode =
                  IF store.detectionMode[PopupHost(p)] = "none" THEN "auto"
                  ELSE store.detectionMode[PopupHost(p)]]
  /\ log' = Log("loadSettings", NoPass, PopupHost(p), FALSE)
  /\ UNCHANGED <<page, store, load, loadResult, settings, images, currentPage,
                 detectedMode, toggleButton, container, observing,
                 refreshTimer, buttons, envVars, popup>>

\* setSiteMode(mode) up to the end of its chrome.storage.sync.set: the
\* popup's whole siteSettings object is stored (popup.js 268-269)
SetSiteMode(p, mode) ==
  /\ popups[p].phase = "ready"
  /\ LET Stored(siteSettings) ==
           /\ popups' = [popups EXCEPT ![p].phase = "siteStored",
                                       ![p].siteSettings = siteSettings,
                                       ![p].arg = mode,
                                       ![p].delivered = FALSE]
           /\ store' = [store EXCEPT !.domains = siteSettings]
     IN  Stored([popups[p].siteSettings EXCEPT ![PopupHost(p)] = mode])
  /\ log' = Log("setSiteMode", NoPass, PopupHost(p), FALSE)
  /\ UNCHANGED <<page, load, loadResult, settings, images, currentPage,
                 detectedMode, toggleButton, container, observing,
                 refreshTimer, buttons, envVars, popup>>

\* setDetectionMode(mode) up to the end of its chrome.storage.sync.set
\* (popup.js 294-296)
SetDetectionMode(p, mode) ==
  /\ popups[p].phase = "ready"
  /\ popups' = [popups EXCEPT ![p].phase = "modeStored",
                              ![p].detectionMode = mode,
                              ![p].arg = mode,
                              ![p].delivered = FALSE]
  /\ store' = [store EXCEPT !.detectionMode[PopupHost(p)] = mode]
  /\ log' = Log("setDetectionMode", NoPass, PopupHost(p), FALSE)
  /\ UNCHANGED <<page, load, loadResult, settings, images, currentPage,
                 detectedMode, toggleButton, container, observing,
                 refreshTimer, buttons, envVars, popup>>

\* the notification of popup 1 is handled in the tab (content.js 841-848);
\* the popup goes on to updateUI and showMessage (popup.js 271-283, 299-309)
Notified(p) ==
  /\ popups[p].phase \in {"siteStored", "modeStored"}
  /\ ReachesScript(p)
  /\ IF popups[p].phase = "siteStored"
     THEN UpdateSiteModeCase(popups[p].arg)
     ELSE UpdateDetectionModeCase(popups[p].arg)
  /\ popups' = [popups EXCEPT ![p].phase = "ready", ![p].message = "success",
                              ![p].delivered = TRUE]
  /\ UNCHANGED <<envVars, popup>>

\* a popup whose failed notification ends the operation with the error
\* message
NotifyFailsReportingError(p) ==
  /\ popups[p].phase \in {"siteStored", "modeStored"}
  /\ ~ReachesScript(p)
  /\ popups' = [popups EXCEPT ![p].phase = "ready", ![p].message = "error"]
  /\ log' = Log("notifyFails", NoPass, PopupHost(p), FALSE)
  /\ UNCHANGED <<page, store, load, loadResult, settings, images, currentPage,
                 detectedMode, toggleButton, container, observing,
                 refreshTimer, buttons, envVars, popup>>

\* chrome.tabs.sendMessage of the notification rejects, no content script
\* being in the tab: the inner catch logs it and the operation goes on to
\* updateUI and showMessage (popup.js 277-283, 305-309).  In the tab of
\* popup 2 a notification that is handled ends in the same way
NotifyFails(p) ==
  /\ popups[p].phase \in {"siteStored", "modeStored"}
  /\ ~ReachesScript(p)
  /\ popups' = [popups EXCEPT ![p].phase = "ready", ![p].message = "success"]
  /\ log' = Log("notifyFails", NoPass, PopupHost(p), FALSE)
  /\ UNCHANGED <<page, store, load, loadResult, settings, images, currentPage,
                 detectedMode, toggleButton, container, observing,
                 refreshTimer, buttons, envVars, popup>>

\* resetSiteSettings up to the end of its chrome.storage.sync.set: a
\* declined confirm returns, a confirmed one deletes the hostname from the
\* popup's siteSettings object and stores the object (popup.js 456-463)
ResetSiteSettings(p, confirmed) ==
  /\ popups[p].phase = "ready"
  /\ IF confirmed
     THEN LET Stored(siteSettings) ==
                /\ popups' = [popups EXCEPT ![p].phase = "reset1",
                                            ![p].siteSettings = siteSettings,
                                            ![p].arg = "reset",
                                            ![p].delivered = FALSE]
                /\ store' = [store EXCEPT !.domains = siteSettings]
          IN  Stored([popups[p].siteSettings EXCEPT ![PopupHost(p)] = "none"])
     ELSE UNCHANGED <<popups, store>>
  /\ log' = Log("resetSiteSettings", NoPass,
                IF confirmed THEN "confirmed" ELSE "declined", FALSE)
  /\ UNCHANGED <<page, load, loadResult, settings, images, currentPage,
                 detectedMode, toggleButton, container, observing,
                 refreshTimer, buttons, envVars, popup>>

\* the two chrome.storage.sync.remove of resetSiteSettings end, one after
\* the other (popup.js 465-469)
ResetRemoves(p) ==
  /\ popups[p].phase \in {"reset1", "reset2"}
  /\ IF popups[p].phase = "reset1"
     THEN /\ store' = [store EXCEPT !.detectionMode[PopupHost(p)] = "none"]
          /\ popups' = [popups EXCEPT ![p].phase = "reset2"]
     ELSE /\ store' = [store EXCEPT !.singlePage[PopupHost(p)] = "none"]
          /\ popups' = [popups EXCEPT ![p].phase = "reset3"]
  /\ log' = Log("remove", NoPass, PopupHost(p), FALSE)
  /\ UNCHANGED <<page, load, loadResult, settings, images, currentPage,
                 detectedMode, toggleButton, container, observing,
                 refreshTimer, buttons, envVars, popup>>

\* chrome.tabs.reload ends, the message is shown and the timer of 1000 ms is
\* set (popup.js 471-478): in the reloaded tab of popup 1 the content script
\* starts anew
ResetReloads(p) ==
  /\ popups[p].phase = "reset3"
  /\ popups' = [popups EXCEPT ![p].phase = "resetWait", ![p].message = "success"]
  /\ log' = Log("reload", NoPass, PopupHost(p), FALSE)
  /\ IF p = 1
     THEN /\ load' = "pending"
          /\ page' = [page EXCEPT !.viewer = <<>>, !.watched = {}, !.armed = {}]
          /\ loadResult' = NothingRead
          /\ settings' = InitialSettings
          /\ images' = <<>>
          /\ currentPage' = 0
          /\ detectedMode' = "null"
          /\ toggleButton' = FALSE
          /\ container' = "none"
          /\ observing' = FALSE
          /\ refreshTimer' = -1
          /\ buttons' = 0
          /\ poll' = NoPoll
          /\ scroll' = NoScroll
     ELSE UNCHANGED <<page, load, loadResult, settings, images, currentPage,
                      detectedMode, toggleButton, container, observing,
                      refreshTimer, buttons, poll, scroll>>
  /\ UNCHANGED <<store, unloaded, view, loading, popup>>

\* the timer of resetSiteSettings fires and calls loadSettings (popup.js
\* 475-478)
ResetTimerFires(p) ==
  /\ popups[p].phase = "resetWait"
  /\ popups' = [popups EXCEPT ![p].phase = "loadDomains"]
  /\ log' = Log("resetTimer", NoPass, PopupHost(p), FALSE)
  /\ UNCHANGED <<page, store, load, loadResult, settings, images, currentPage,
                 detectedMode, toggleButton, container, observing,
                 refreshTimer, buttons, envVars, popup>>

\* chrome.storage.sync.get of Settings.load reads the store (content.js
\* 143): the answer is on its way to the content script
StorageFetches ==
  /\ load = "pending"
  /\ load' = "fetched"
  /\ loadResult' = StorageGet(store)
  /\ log' = Log("storageFetches", NoPass, "none", FALSE)
  /\ UNCHANGED <<page, store, settings, images, currentPage, detectedMode,
                 toggleButton, container, observing, refreshTimer>>
  /\ UNCHANGED <<buttons, envVars, popup, popups>>

\* the answer of the get reaches the content script (content.js 143-149)
StorageDelivers ==
  /\ load = "fetched"
  /\ load' = "read"
  /\ log' = Log("storageAnswers", NoPass, "none", FALSE)
  /\ UNCHANGED <<page, store, loadResult, settings, images, currentPage,
                 detectedMode, toggleButton, container, observing, refreshTimer>>
  /\ UNCHANGED <<buttons, envVars, popup, popups>>

\* the modes and site modes the modelled popups set
PopupModes == {"auto", "smart"}

PopupSiteModes == {"show", "hide"}

\* what the store holds when the popups are opened
SettingsStores ==
  {[EmptyStore EXCEPT !.domains[hostname] = site, !.domains["other"] = "show",
                      !.detectionMode[hostname] = mode,
                      !.detectionMode["other"] = "smart",
                      !.singlePage[hostname] = "true",
                      !.singlePage["other"] = "false",
                      !.bg = "#F5F5F5", !.threshold = 70] :
     site \in {"none", "show"}, mode \in {"none", "manga-reader"}}

InitSettings ==
  /\ page = Page(ImgsOf({1, 2}), <<>>, <<>>, "none", <<>>)
  /\ store \in SettingsStores
  /\ load \in {"absent", "pending"}
  /\ loadResult = NothingRead
  /\ settings = InitialSettings
  /\ images = <<>>
  /\ currentPage = 0
  /\ detectedMode = "null"
  /\ toggleButton = FALSE
  /\ container = "none"
  /\ observing = FALSE
  /\ refreshTimer = -1
  /\ buttons = 0
  /\ unloaded = FALSE
  /\ poll = NoPoll
  /\ view = InitialView
  /\ loading = NotLoading
  /\ popup = PopupIdle
  /\ popups = NoPopups
  /\ scroll = NoScroll
  /\ log = Log("start", NoPass, "none", FALSE)

\* the user of popup 2 sets the site mode of its hostname and nothing else
NextSettings ==
  \/ StorageAnswers
  \/ InitializeContinues
  \/ \E p \in PopupIds :
       \/ PopupOpens(p)
       \/ PopupLoadsSettings(p)
       \/ \E mode \in PopupSiteModes : SetSiteMode(p, mode)
       \/ Notified(p)
       \/ NotifyFails(p)
  \/ \E mode \in PopupModes : SetDetectionMode(1, mode)
  \/ \E confirmed \in BOOLEAN : ResetSiteSettings(1, confirmed)
  \/ ResetRemoves(1)
  \/ ResetReloads(1)
  \/ ResetTimerFires(1)

\* two popups, the storage and the content script of the tab of popup 1
SpecSettings == InitSettings /\ [][NextSettings]_vars

\* popup 1 sets detection modes while the content script of its tab starts
NextStarting ==
  \/ StorageFetches
  \/ StorageDelivers
  \/ InitializeContinues
  \/ PopupOpens(1)
  \/ PopupLoadsSettings(1)
  \/ \E mode \in PopupModes : SetDetectionMode(1, mode)
  \/ Notified(1)

InitStarting ==
  /\ InitSettings
  /\ load = "pending"

SpecStarting == InitStarting /\ [][NextStarting]_vars

\* the modes an updateDetectionMode message may carry: the keys of
\* DETECTION_MODES, a name that is none of them, and a name every object
\* inherits
RequestModes == ModeNames \cup {"unknown", "__proto__"}

InitModes == Init

NextModes ==
  \/ StorageAnswers
  \/ InitializeContinues
  \/ \E mode \in RequestModes : UpdateDetectionMode(mode)
  \/ LaunchViewer

\* the content script and a popup that sets detection modes and launches
SpecModes == InitModes /\ [][NextModes]_vars

InitDetect ==
  /\ page \in Pages
  /\ store = EmptyStore
  /\ load = "resolved"
  /\ loadResult = NothingRead
  /\ settings \in {[InitialSettings EXCEPT !.detectionMode = mode,
                                           !.niconicoThreshold = threshold] :
                     mode \in ModeNames, threshold \in Thresholds}
  /\ images = <<>>
  /\ currentPage = 0
  /\ detectedMode \in {"null", "smart"}
  /\ toggleButton = FALSE
  /\ container = "none"
  /\ observing = TRUE
  /\ refreshTimer = -1
  /\ buttons = 0
  /\ unloaded = FALSE
  /\ poll = NoPoll
  /\ view = InitialView
  /\ loading = NotLoading
  /\ popup = PopupIdle
  /\ scroll = NoScroll
  /\ popups = NoPopups
  /\ log = Log("start", NoPass, "none", FALSE)

NextDetect == Refresh

SpecDetect == InitDetect /\ [][NextDetect]_vars

\* ------------------------------------------------------------------------
\* Properties
\* ------------------------------------------------------------------------
\* the steps that call ImageManager.refresh directly
PassOps == {"initialize", "toggleClick", "launchViewer"}

\* the order of the strategies as the specification lists it
C1Order ==
  <<"basic", "reading-content", "chapter-content", "manga-reader",
    "entry-content", "smart", "deep-scan", "frame-reader", "niconico-seiga">>

\* the strategies of C1Order that are tried on page pg
C1Tried(pg) ==
  LET Tried(name) == name = "frame-reader" => pg.iframe # "none"
  IN  SelectSeq(C1Order, Tried)

\* the page as the first k - 1 strategies of tried leave it
RECURSIVE C1PageBefore(_, _, _, _)
C1PageBefore(tried, k, pg, thresholdPct) ==
  IF k = 1 THEN pg
  ELSE StrategyMethod(tried[k - 1],
                      C1PageBefore(tried, k - 1, pg, thresholdPct),
                      thresholdPct).page

\* what strategy number k of tried returns when its turn comes
C1ResultOf(tried, k, pg, thresholdPct) ==
  StrategyMethod(tried[k], C1PageBefore(tried, k, pg, thresholdPct),
                 thresholdPct).images

\* C1: a detection pass in mode 'auto' runs the strategies in the order
\* basic, reading-content, chapter-content, manga-reader, entry-content,
\* smart, deep-scan, frame-reader (only with an iframe), niconico-seiga; the
\* first one whose result has at least 2 images is the last one run, its
\* result is the result and its name becomes state.detectedMode; when the DOM
\* scan and the resource scan both find at least 2, the DOM scan's result is
\* returned
C1_AutoFallbackOrder ==
  [][(settings.detectionMode = "auto" /\ log'.op = "refresh") =>
       LET tried == C1Tried(page)
           thr == settings.niconicoThreshold
           Wins(k) == Len(C1ResultOf(tried, k, page, thr)) >= 2
           First(k) == Wins(k) /\ \A j \in 1..(k - 1) : ~Wins(j)
       IN  /\ \E k \in 0..Len(tried) : log'.ran = SubSeq(tried, 1, k)
           /\ \A k \in 1..Len(tried) :
                First(k) => /\ log'.ran = SubSeq(tried, 1, k)
                            /\ images' = Refs(C1ResultOf(tried, k, page, thr))
                            /\ detectedMode' = tried[k]
           /\ (/\ Len(detectFromDocument(page).images) >= 2
               /\ Len(detectFromResources(page).images) >= 2)
              => /\ detectedMode' = "basic"
                 /\ images' = Refs(detectFromDocument(page).images)
                 /\ log'.ran = <<"basic">>]_vars

\* an auto pass on a page where the DOM scan and the resource scan both
\* qualify has returned the DOM scan's two images
C1_Witness ==
  /\ log.op = "refresh"
  /\ log.mode = "auto"
  /\ log.ran = <<"basic">>
  /\ detectedMode = "basic"
  /\ log.count = 2
  /\ Len(detectFromResources(page).images) >= 2
  /\ \A k \in 1..Len(images) : images[k].doc = "main"

\* C2: a detection pass in a pinned mode runs that strategy alone, returns
\* its result whatever its length, and leaves state.detectedMode as it was
C2_PinnedRunsOneStrategy ==
  [][(settings.detectionMode # "auto" /\ log'.op = "refresh") =>
       /\ log'.ran = <<settings.detectionMode>>
       /\ images' = Refs(StrategyMethod(settings.detectionMode, page,
                                        settings.niconicoThreshold).images)
       /\ log'.count = Len(images')
       /\ detectedMode' = detectedMode]_vars

\* a pass pinned to manga-reader has returned a single image on a page where
\* the resource scan would have qualified, and state.detectedMode kept the
\* value of an earlier search
C2_Witness ==
  /\ log.op = "refresh"
  /\ log.mode = "manga-reader"
  /\ log.ran = <<"manga-reader">>
  /\ log.count = 1
  /\ Len(images) = 1
  /\ Len(detectFromResources(page).images) >= 2
  /\ detectedMode = "smart"

\* C3: a detection pass in mode 'auto' that ends with fewer than 2 images
\* returns the empty list, leaves state.detectedMode null and the session's
\* detection mode 'auto', and writes nothing to the store
C3_AutoFailureLeavesUnset ==
  [][(log'.op \in PassOps /\ log'.mode = "auto" /\ log'.count < 2) =>
       /\ log'.count = 0
       /\ images' = <<>>
       /\ detectedMode' = "null"
       /\ settings'.detectionMode = "auto"
       /\ ~log'.wrote
       /\ store' = store]_vars

\* a launchViewer message has run the whole search on a page with no images,
\* no canvases and no iframe
C3_Witness ==
  /\ log.op = "launchViewer"
  /\ log.mode = "auto"
  /\ log.count = 0
  /\ Len(log.ran) = Len(C1Order) - 1
  /\ page.imgs = <<>>
  /\ page.canvases = <<>>
  /\ page.iframe = "none"
  /\ detectedMode = "null"

\* C4: after a successful detection pass in mode 'auto' on the initial
\* refresh, a toggle-button click or a launchViewer message, the store holds
\* the winning strategy under the hostname's key and the session's detection
\* mode is that strategy
C4_AutoSuccessPersisted ==
  (log.op \in PassOps /\ log.mode = "auto" /\ log.count >= 2) =>
    /\ store.detectionMode[hostname] = detectedMode
    /\ settings.detectionMode = detectedMode

\* C5: when the timer of scheduleRefresh comes due, one detection pass runs
C5_TimerRunsOnePass ==
  log.op = "refreshTimer" => (log.mode # "none" /\ log.count >= 0)

\* C6: the list a detection pass returns holds no two images with the same
\* source URL, in every mode
C6_NoDuplicateSources ==
  log.op = "refresh" => NoDuplicates(Srcs(images))

C8_RefreshNoOpWhenHidden ==
  (settings.siteMode = "hide" /\ log.op \in PassOps) => log.ran = <<>>

\* C9: no strategy runs and no detection mode is written to the store before
\* Settings.load has resolved
C9_LoadBeforeDetection ==
  (log.ran # <<>> \/ log.wrote) => load = "resolved"

\* C10: once Settings.load has rejected, the toggle button is not added, no
\* observer is installed, no strategy runs and the viewer is not opened
C10_DisabledAfterLoadFailure ==
  [][load = "rejected" =>
       /\ ~toggleButton'
       /\ ~observing'
       /\ container' # "flex"
       /\ log'.ran = <<>>]_vars

\* the length of what the method of testDetection named name returns when it
\* is run on page pg by itself
C12CountAlone(name, pg, thresholdPct) ==
  IF name = "auto" THEN Len(detectWithAutoFallback(pg, thresholdPct).images)
  ELSE Len(StrategyMethod(name, pg, thresholdPct).images)

\* C12: a testDetection message answers one count for each of the ten mode
\* names, each the length its method returns when run on its own, and leaves
\* state.images, state.detectedMode, state.settings and the store as they were
C12_TestDetectionLeavesState ==
  [][log'.op = "testDetection" =>
       /\ log'.response = "results"
       /\ Len(log'.results) = Cardinality(ModeNames)
       /\ \A k \in 1..Len(log'.results) :
            log'.results[k] = C12CountAlone(detectionMethods[k], page,
                                            settings.niconicoThreshold)
       /\ images' = images
       /\ detectedMode' = detectedMode
       /\ settings' = settings
       /\ store' = store]_vars

\* C13: a refresh whose detection returns the URLs of state.images in the
\* same order does not assign state.images
C13_UnchangedPageKeepsImages ==
  (log.op = "refresh" /\ log.sameUrls) => ~log.changed

\* C14: each of the nine strategies, run a second time on the page as its
\* first run left it, returns a list of the same length with the same source
\* URL at every position, and changes the page no further
C14_StrategiesIdempotent ==
  [][(log'.op = "refresh" /\ settings.detectionMode # "auto") =>
       LET Again(first) ==
             StrategyMethod(settings.detectionMode, first.page,
                            settings.niconicoThreshold)
           Same(first, second) ==
             /\ Len(first.images) = Len(second.images)
             /\ Srcs(first.images) = Srcs(second.images)
             /\ second.page = first.page
             /\ page' = attachWatchers(first.page, first.images,
                                       settings.detectionMode)
             /\ log'.count = Len(second.images)
           Twice(first) == Same(first, Again(first))
       IN  Twice(StrategyMethod(settings.detectionMode, page,
                                settings.niconicoThreshold))]_vars

\* a pass pinned to reading-content has filled in the src of a lazy image
\* and returned it
C14_Witness ==
  /\ log.op = "refresh"
  /\ log.mode = "reading-content"
  /\ log.count >= 1
  /\ \E k \in 1..Len(page.imgs) :
       /\ page.imgs[k].dataSrc # NoUrl
       /\ page.imgs[k].src = page.imgs[k].dataSrc
       /\ \E j \in 1..Len(images) : images[j].i = page.imgs[k].i

\* the canvas is a candidate as the specification states it: its area is at
\* least 200000 and its transparent fraction is less than 1 - threshold
C15Accepts(canvas, thresholdPct) ==
  /\ canvas.w * canvas.h >= 200000
  /\ canvas.transparent * 100 < (100 - thresholdPct) * (canvas.w * canvas.h)

\* the indices (from 0) of the canvases of a list that pass the test Accepts
CanvasIndices(canvases, Accepts(_)) ==
  LET Is(k) == Accepts(canvases[k + 1])
  IN  SelectSeq([k \in 1..Len(canvases) |-> k - 1], Is)

\* C15: the canvas pass returns a candidate for exactly the canvases whose
\* area is at least 200000 and whose fraction of pixels with alpha < 10 is
\* less than 1 - threshold (the canvases that can be read and serialized)
C15_CanvasAcceptance ==
  (log.op = "refresh" /\ log.mode = "niconico-seiga") =>
    LET Accepts(canvas) ==
          /\ C15Accepts(canvas, settings.niconicoThreshold)
          /\ ~canvas.readThrows
          /\ ~canvas.dataThrows
    IN  [k \in 1..Len(images) |-> images[k].idx]
          = CanvasIndices(page.canvases, Accepts)

\* C16: a canvas whose read or serialization throws is left out and every
\* other canvas is still processed: the result is the candidates of the
\* canvases that would be candidates alone and do not throw
C16_CanvasFailureIsolated ==
  (log.op = "refresh" /\ log.mode = "niconico-seiga") =>
    LET Alone(canvas) ==
          /\ Len(extractFromCanvas([page EXCEPT !.canvases = <<canvas>>],
                                   settings.niconicoThreshold).images) = 1
          /\ ~canvas.readThrows
          /\ ~canvas.dataThrows
    IN  /\ [k \in 1..Len(images) |-> images[k].idx]
             = CanvasIndices(page.canvases, Alone)
        /\ \A k \in 1..Len(images) :
             images[k].src = toDataURL(page.canvases[images[k].idx + 1])
        /\ log.response = "none"

\* a canvas pass has returned the canvas that follows one whose read throws
\* and one whose serialization throws
C16_Witness ==
  /\ log.op = "refresh"
  /\ log.mode = "niconico-seiga"
  /\ \E k \in 1..Len(images) :
       /\ images[k].idx > 1
       /\ \E i, j \in 1..images[k].idx :
            /\ page.canvases[i].readThrows
            /\ page.canvases[j].dataThrows
            /\ page.canvases[i].w * page.canvases[i].h >= minPixelCount
            /\ page.canvases[j].w * page.canvases[j].h >= minPixelCount

\* C17: with a first iframe whose document cannot be reached (access throws
\* or the document is null) the frame reader returns the empty list, and an
\* auto search that runs it goes on to the canvas strategy
C17_FrameReaderFailureContinues ==
  (log.op = "refresh" /\ page.iframe \in {"denied", "null"}) =>
    /\ log.mode = "frame-reader" =>
         (log.count = 0 /\ images = <<>> /\ log.response = "none")
    /\ log.mode = "auto" =>
         \A k \in 1..Len(log.ran) :
           log.ran[k] = "frame-reader" =>
             /\ Len(log.ran) = k + 1
             /\ log.ran[k + 1] = "niconico-seiga"
             /\ LET canvas == extractFromCanvas(page, settings.niconicoThreshold).images
                IN  IF Len(canvas) >= 2
                    THEN images = Refs(canvas) /\ detectedMode = "niconico-seiga"
                    ELSE images = <<>> /\ detectedMode = "null"

\* an auto search on a page whose iframe denies access has run the frame
\* reader and then found the images in the canvases
C17_Witness ==
  /\ log.op = "refresh"
  /\ log.mode = "auto"
  /\ page.iframe = "denied"
  /\ Len(log.ran) = 9
  /\ log.ran[8] = "frame-reader"
  /\ detectedMode = "niconico-seiga"
  /\ log.count >= 2

\* C19: the toggle button is in the page exactly when the site mode is
\* 'show', and the page never holds more than one
C19_ToggleButtonFollowsSiteMode ==
  /\ toggleButton <=> settings.siteMode = "show"
  /\ buttons = IF toggleButton THEN 1 ELSE 0

\* an updateSiteMode message has left the button in a page in which
\* initialize had added it
C19_Witness ==
  /\ log.op = "updateSiteMode"
  /\ load = "resolved"
  /\ loadResult.siteMode = "show"
  /\ toggleButton
  /\ buttons = 1

\* the callbacks of the timers the content script sets
TimerOps ==
  {"refreshTimer", "pollTick", "loadAllStep", "loadAllFinal",
   "niconicoInterval", "niconicoCallback"}

\* C11: after the beforeunload listener has run, no timer callback of the
\* script runs, no detection pass runs and the mutation observer stays
\* disconnected
C11_NothingRunsAfterTeardown ==
  [][unloaded =>
       /\ log'.op \notin TimerOps
       /\ log'.ran = <<>>
       /\ ~observing'
       /\ ~poll'.on]_vars

\* C20: when a load-everything operation finishes, the window it scrolled is
\* at the position it had when the operation started, and a detection pass
\* has run
C20_LoadAllRestoresScroll ==
  log.response = "finished" =>
    /\ view[loading.window].top = loading.startTop
    /\ log.ran # <<>>

\* C18: one execution of the popup's launchViewer injects at most once and
\* pings at most twice; when the injection or the second ping fails it shows
\* an error message, has not sent launchViewer and the launch button is no
\* longer in its loading state
C18_InjectOnceRetryOnce ==
  /\ popup.injections <= 1
  /\ popup.pings <= 2
  /\ (popup.phase = "failed" /\ popup.cause \in {"inject", "ping2"}) =>
       /\ popup.message = "inject-failed"
       /\ ~popup.launchSent
       /\ ~popup.loadingClass

C18_Witness ==
  /\ popup.phase = "failed"
  /\ popup.cause = "ping2"
  /\ popup.injections = 1
  /\ popup.pings = 2

\* C21: after a mutation that adds an <img> while the observer is connected,
\* the debounced timer eventually runs a detection pass
C21_MutationLeadsToPass ==
  (log.op = "mutation" /\ observing)
    ~> (log.op = "refreshTimer" /\ log.ran # <<>>)

\* C22: a scroll event makes the listener call scheduleRefresh exactly when
\* it is the first one or at least 500 ms have passed since the listener
\* last called it; a dropped event leaves the timer of the debounce alone,
\* then and later
C22_ScrollThrottled ==
  [][log'.op = "scroll" =>
       LET due == \/ scroll.scheduledAt = -1
                  \/ scroll.now - scroll.scheduledAt >= 500
       IN  /\ (log'.response = "scheduled") = due
           /\ due => refreshTimer' = refreshDebounceMs
                       /\ scroll'.scheduledAt = scroll.now
           /\ ~due => refreshTimer' = refreshTimer
                        /\ scroll'.scheduledAt = scroll.scheduledAt]_vars

C22_Witness ==
  /\ log.op = "scroll"
  /\ log.response = "dropped"
  /\ scroll.scheduledAt > StartMs

\* C23: a poll tick schedules a refresh exactly when the number of img and
\* canvas elements of the document differs from state.lastImageCount, and
\* leaves state.lastImageCount equal to that number; no other step changes
\* state.lastImageCount
C23_PollComparesCounts ==
  [][LET count == Len(page.imgs) + Len(page.viewer) + Len(page.canvases)
     IN  IF log'.op = "pollTick"
         THEN /\ poll'.lastImageCount = count
              /\ count # poll.lastImageCount => refreshTimer' = refreshDebounceMs
              /\ count = poll.lastImageCount => refreshTimer' = refreshTimer
         ELSE poll'.lastImageCount = poll.lastImageCount]_vars

C23_Witness ==
  /\ log.op = "pollTick"
  /\ Len(page.viewer) > 0
  /\ poll.lastImageCount = Len(page.imgs) + Len(page.viewer) + Len(page.canvases)
  /\ refreshTimer = refreshDebounceMs

\* C24: when an image that a refresh has put a load watch on finishes
\* loading, the refresh it schedules eventually runs a detection pass
C24_WatchedLoadLeadsToPass ==
  (log.op = "imageLoad" /\ log.response = "scheduled")
    ~> (log.op = "refreshTimer" /\ log.ran # <<>>)

\* the filter of the DOM scan as C25 states it
C25Accepts(img) ==
  IF img.flag # "none" THEN TRUE
  ELSE IF isImageLoaded(img)
  THEN /\ img.nh >= 400
       /\ img.nw >= 200
       /\ ~matchesExcludePatterns(img.src, DocumentExcludePatterns)
  ELSE img.src # NoUrl /\ isImageUrl(img.src)

\* C25: the DOM scan returns the images of the document that are loaded
\* with naturalHeight >= 400, naturalWidth >= 200 and no exclude keyword in
\* their URL, or not yet loaded with an image extension in their URL
C25_DomScanFilter ==
  (log.op = "refresh" /\ log.ran = <<"basic">>) =>
    log.count = Len(filterAndSortImages(SelectSeq(page.imgs, C25Accepts)))

\* the top of the bounding rectangle of an element of the document
C26Top(ref) == ImgPool[ref.i].top

\* C26: the result of the DOM scan and of each selector-match strategy is
\* in ascending order of the top of the images and holds every URL once
C26_SortedAndDeduplicated ==
  (/\ log.op = "refresh"
   /\ Len(log.ran) = 1
   /\ log.ran[1] \in {"basic", "reading-content", "chapter-content",
                      "manga-reader", "entry-content"}) =>
    /\ NoDuplicates(Srcs(images))
    /\ \A j, k \in 1..Len(images) : j < k => C26Top(images[j]) <= C26Top(images[k])

\* C27: after an updateDisplayMode message the single-page flag of the
\* session is the one the message carried, with the viewer closed or open
C27_DisplayModeFollowsMessage ==
  [][log'.op = "updateDisplayMode" =>
       settings'.singlePageMode = (log'.response = "single")]_vars

\* C28: whenever the viewer is open the current page is an index of the
\* list of images
C28_CurrentPageInRange ==
  container = "flex" => (0 <= currentPage /\ currentPage < Len(images))

\* C29: a loadAll that has set the button's loading flag to '1' is
\* eventually followed by finishLoadAll, which sets it to '0'
C29_LoadAllFinishes ==
  (loading.button = "1") ~> (loading.button = "0")

\* C30: a sequence in progress has the button's flag at '1', and a click on
\* the button while the flag is '1' changes nothing of the sequence, the
\* windows or the timers
C30_LoadAllNotReentrant ==
  [][/\ loading.phase # "idle" => loading.button = "1"
     /\ (log'.op = "loadAll" /\ loading.button = "1") =>
          /\ log'.response = "ignored"
          /\ loading' = loading
          /\ view' = view
          /\ refreshTimer' = refreshTimer]_vars

C30_Witness ==
  /\ log.op = "loadAll"
  /\ log.response = "ignored"
  /\ loading.phase \in {"step", "final", "interval", "callback"}

\* C32: whenever the content script writes the hostname's detection-mode key,
\* the written value is the name of one of the nine strategies, it is
\* state.detectedMode as the detection pass of that very step set it (the
\* strategy that pass ran last), and right after the write the session's
\* detection mode is the written value
C32_WrittenModeIsDetected ==
  [][log'.wrote =>
       /\ store'.detectionMode[hostname] \in Range(strategies)
       /\ store'.detectionMode[hostname] = detectedMode'
       /\ log'.mode = "auto"
       /\ log'.ran # <<>>
       /\ log'.ran[Len(log'.ran)] = store'.detectionMode[hostname]
       /\ settings'.detectionMode = store'.detectionMode[hostname]]_vars

\* a launchViewer in 'auto' mode has found a strategy, written the key and
\* opened the viewer
C32_Witness ==
  /\ log.op = "launchViewer"
  /\ log.wrote
  /\ store.detectionMode[hostname] \in Range(strategies)
  /\ container = "flex"

\* C36: an updateDetectionMode message with mode m leaves m as the session's
\* detection mode, and the detection pass of a launchViewer uses the
\* session's mode: 'auto' runs the fallback search, the name of a strategy
\* runs that strategy alone, and any other name runs the DOM scan alone and
\* the message is answered
C36_PassUsesRequestedMode ==
  [][/\ log'.op = "updateDetectionMode" => settings'.detectionMode = log'.response
     /\ log'.op = "launchViewer" =>
          /\ log'.mode = settings.detectionMode
          /\ log'.response \in {"success", "insufficient_images"}
          /\ settings.detectionMode = "auto" =>
               /\ log'.ran = detectWithAutoFallback(page, settings.niconicoThreshold).ran
               /\ log'.ran # <<>>
               /\ log'.ran[1] = strategies[1]
          /\ settings.detectionMode \in Range(strategies) =>
               log'.ran = <<settings.detectionMode>>
          /\ settings.detectionMode \notin ModeNames =>
               log'.ran = <<"basic">>]_vars

\* C37: every candidate of the canvas extractor carries as its ordinal hint
\* (dataset.canvasIndex) the index its canvas has among all the canvases of
\* the page, the canvases left out counted, and the result is in strictly
\* ascending order of that index
C37_CanvasIndexIsPosition ==
  (log.op = "refresh" /\ log.mode = "niconico-seiga") =>
    /\ Len(images) = log.count
    /\ \A k \in 1..Len(images) :
         /\ images[k].flag = "canvas"
         /\ images[k].idx \in 0..(Len(page.canvases) - 1)
         /\ images[k].src = toDataURL(page.canvases[images[k].idx + 1])
    /\ \A j, k \in 1..Len(images) : j < k => images[j].idx < images[k].idx

\* a canvas pass has returned two candidates, the first from a canvas that
\* follows one it left out
C37_Witness ==
  /\ log.op = "refresh"
  /\ log.mode = "niconico-seiga"
  /\ Len(images) >= 2
  /\ images[1].idx >= 1
  /\ images[2].idx > images[1].idx

\* where a URL occurs first in a list of URLs
C38FirstAt(url, urls) ==
  CHOOSE k \in 1..Len(urls) :
    urls[k] = url /\ \A j \in 1..(k - 1) : urls[j] # url

\* C38: the result of the text scan holds each matched URL at most once, in
\* the order in which the URLs occur first in the markup; it holds every
\* matched URL the exclude keywords let through and no other, and its
\* ordinal hints (dataset.textScanIndex) are 0..n-1 in list order, so they
\* are assigned after the duplicates and the excluded URLs are gone
C38_TextScanDeduplicates ==
  (log.op = "refresh" /\ log.mode = "deep-scan") =>
    LET html == outerHTML(page)
        Wanted == {url \in Range(html) :
                     /\ url.scheme = "http"
                     /\ url.ext \in {"jpg", "jpeg", "png", "webp", "gif"}
                     /\ url.kw \notin ResourceExcludePatterns}
    IN  /\ Len(images) = log.count
        /\ NoDuplicates(Srcs(images))
        /\ Range(Srcs(images)) = Wanted
        /\ \A k \in 1..Len(images) :
             /\ images[k].flag = "text"
             /\ images[k].idx = k - 1
        /\ \A j, k \in 1..Len(images) :
             j < k => C38FirstAt(images[j].src, html) < C38FirstAt(images[k].src, html)

\* a text scan has returned two URLs from a markup that holds the first of
\* them twice and an excluded URL between the two
C38_Witness ==
  /\ log.op = "refresh"
  /\ log.mode = "deep-scan"
  /\ Len(images) = 2
  /\ \E a, b, c \in 1..Len(outerHTML(page)) :
       /\ a < b /\ b < c
       /\ outerHTML(page)[a] = images[1].src
       /\ outerHTML(page)[c] = images[1].src
       /\ outerHTML(page)[b].kw \in ResourceExcludePatterns
       /\ C38FirstAt(images[2].src, outerHTML(page)) > b

\* C39: with a first iframe whose document can be reached, the frame reader
\* returns exactly the images of that document that are complete, have a
\* non-zero natural size and are at least 500 px wide, each once, and
\* the src of each is the URL the element has in the iframe's document
C39_FrameReaderResult ==
  (log.op = "refresh" /\ log.mode = "frame-reader" /\ page.iframe = "open") =>
    LET Loaded == {k \in 1..Len(FrameImgs) :
                     /\ FrameImgs[k].complete
                     /\ FrameImgs[k].nw > 0
                     /\ FrameImgs[k].nh > 0
                     /\ FrameImgs[k].nw >= 500}
    IN  /\ Len(images) = log.count
        /\ {images[k].i : k \in 1..Len(images)} = Loaded
        /\ Len(images) = Cardinality(Loaded)
        /\ \A k \in 1..Len(images) :
             /\ images[k].doc = "frame"
             /\ images[k].src = FrameImgs[images[k].i].src
             /\ images[k].src # UrlFrameRoot

\* a frame reader has returned three images of the iframe's document, one
\* of them with a src that does not start with 'http', and has left out an
\* image that is 499 px wide and one that is not loaded
C39_Witness ==
  /\ log.op = "refresh"
  /\ log.mode = "frame-reader"
  /\ page.iframe = "open"
  /\ Len(images) = 3
  /\ \E k \in 1..Len(images) : images[k].src.scheme = "data"
  /\ \E k \in 1..Len(page.frameImgs) :
       page.frameImgs[k].complete /\ page.frameImgs[k].nw = 499
  /\ \E k \in 1..Len(page.frameImgs) : ~page.frameImgs[k].complete

\* C31: a setSiteMode of a popup leaves the stored site mode of every other
\* hostname as it was, whatever the other popup has done since this popup
\* loaded its settings
C31_OtherHostnamesKept ==
  [][\A p \in PopupIds :
       (popups[p].phase = "ready" /\ popups'[p].phase = "siteStored") =>
         \A h \in Hosts \ {PopupHost(p)} :
           store'.domains[h] = store.domains[h]]_vars

\* C34: setSiteMode and setDetectionMode store the new value before the
\* notification is sent, and a notification that cannot be delivered leaves
\* the store as it is and ends with the success message
C34_StoredBeforeNotified ==
  [][\A p \in PopupIds :
       /\ (popups[p].phase = "ready" /\ popups'[p].phase = "siteStored") =>
            /\ store'.domains[PopupHost(p)] = popups'[p].arg
            /\ settings' = settings
       /\ (popups[p].phase = "ready" /\ popups'[p].phase = "modeStored") =>
            /\ store'.detectionMode[PopupHost(p)] = popups'[p].arg
            /\ settings' = settings
       /\ (popups'[p].delivered /\ ~popups[p].delivered) =>
            popups[p].phase \in {"siteStored", "modeStored"}
       /\ (log'.op = "notifyFails" /\ popups'[p] # popups[p]) =>
            /\ store' = store
            /\ popups'[p].message = "success"
            /\ popups'[p].phase = "ready"]_vars

\* the notification of a setDetectionMode of popup 1 has failed, the tab
\* holding no content script, and the store holds the new mode
C34_Witness ==
  /\ log.op = "notifyFails"
  /\ log.response = "site"
  /\ load = "absent"
  /\ popups[1].phase = "ready"
  /\ popups[1].message = "success"
  /\ popups[1].arg = "smart"
  /\ store.detectionMode["site"] = "smart"

\* C35: a confirmed resetSiteSettings removes the site mode, the
\* detection-mode key and the single-page key of the popup's hostname, each
\* of its steps leaves the entries of every other hostname and the global
\* keys as they were, and a declined one changes nothing
C35_ResetRemovesOwnEntries ==
  [][\A p \in PopupIds :
       /\ (popups'[p].phase \in {"reset1", "reset2", "reset3"}
            /\ popups'[p].phase # popups[p].phase) =>
            /\ \A h \in Hosts \ {PopupHost(p)} :
                 /\ store'.domains[h] = store.domains[h]
                 /\ store'.detectionMode[h] = store.detectionMode[h]
                 /\ store'.singlePage[h] = store.singlePage[h]
            /\ store'.bg = store.bg
            /\ store'.threshold = store.threshold
       /\ (popups'[p].phase = "reset3" /\ popups[p].phase = "reset2") =>
            /\ store'.domains[PopupHost(p)] = "none"
            /\ store'.detectionMode[PopupHost(p)] = "none"
            /\ store'.singlePage[PopupHost(p)] = "none"
       /\ (log'.op = "resetSiteSettings" /\ log'.response = "declined") =>
            (store' = store /\ popups' = popups)]_vars

\* C33: when the initialization of the content script has ended and the
\* setDetectionMode(m) of the popup of its tab is complete, the value stored
\* and the message handled, the session's detection mode is m, whichever of
\* the two ended last
C33_SessionModeIsPopupMode ==
  [][/\ (log'.op = "updateDetectionMode" /\ load = "resolved") =>
          settings'.detectionMode = popups'[1].arg
     /\ (/\ log'.op = "initialize"
         /\ popups[1].phase = "ready"
         /\ popups[1].delivered
         /\ popups[1].arg \in PopupModes) =>
          settings'.detectionMode = popups[1].arg]_vars

====
